---------------------------- MODULE Spec2Model ----------------------------
(***************************************************************************)
(* A model of pyOneNote, a parser of OneNote revision-store files.         *)
(*                                                                         *)
(* The module holds several specifications over one set of variables, one  *)
(* per part of the program:                                                *)
(*   SpecFcr  the chunk reference decoder and isFcrNil (FileNode.py)       *)
(*   SpecPs   the decoder of ObjectSpaceObjectPropSet and PropertySet, run *)
(*            on the bytes of one buffer (FileNode.py)                     *)
(*   SpecDoc  the nodes a traversal visits, the Global Identification      *)
(*            Table, and get_properties / get_links (OneDocument.py)       *)
(*   SpecFiles the same with the file data nodes and get_files / get_json  *)
(*   Spec     the construction of the root FileNodeList from the bytes of  *)
(*            a file: fragments, FileNodes, child lists, prop sets         *)
(*   SpecUrl  _extract_urls_from_text on a text and on the URLs it found   *)
(*   SpecMain process_onenote_file from check_valid to the construction of *)
(*            the document (Main.py, Header.py)                            *)
(*   SpecFmt  PropertySet.get_properties on the sets the decoder of SpecPs *)
(*            builds from properties with names of the table (FileNode.py) *)
(*                                                                         *)
(* OneDocument.__init__ passes debug= to Header, which does not take it;   *)
(* the specifications start where the header has been decoded and its      *)
(* fcrFileNodeListRoot is at hand.                                         *)
(*                                                                         *)
(* No exception is caught anywhere on the way from Main.py to the parser   *)
(* (the only try is the UTF-16 decoding of a property value): a raised     *)
(* exception ends the run.                                                 *)
(*                                                                         *)
(* Unsigned integers wider than 31 bits (the 64-bit stp, the scaled 35-bit *)
(* stp) are held as the set of the positions of their 1 bits, so that      *)
(* Python's unbounded & and == are exact: a & b is the intersection, a * 8 *)
(* moves every bit up by three, a == b is set equality, and 0 is {}.       *)
(***************************************************************************)
EXTENDS Integers, Sequences, FiniteSets, TLC

VARIABLES
    fcrShape,     \* SpecFcr: which reference is decoded (formats of the node header)
    fcrRawStp,    \* SpecFcr: the stp field as unpacked from the bytes (bit set)
    fcrRawCb,     \* SpecFcr: the cb field as unpacked from the bytes (bit set)
    fcrObj,       \* SpecFcr: the decoded reference object (stp, cb, invalid)
    fcrNil,       \* SpecFcr: the value isFcrNil() returned
    fcrPc,        \* SpecFcr: "raw", then "decoded", then "tested"
    psBuf,        \* SpecPs: the bytes the reader finds from ref.stp on
    psPos,        \* SpecPs: fh_onenote.tell(), counted from ref.stp
    psPc,         \* SpecPs: "streams", "body", "done" or "error"
    psErr,        \* SpecPs: the exception that ended the decoding, or ""
    psStreams,    \* SpecPs: the streams OIDs, OSIDs, ContextIDs of the prop set
    psStack,      \* SpecPs: the PropertySet objects under construction, innermost last
    psResult,     \* SpecPs: the finished outermost PropertySet (ObjectSpaceObjectPropSet.body)
    docPc,        \* SpecDoc: "parsing", "parsed", or "raised" after an uncaught exception
    cur_revision, \* document.cur_revision: the ExtendedGUID object of the last start node
    gidt,         \* document._global_identification_table, keyed by <<revision, index>>
    docNodes,     \* SpecDoc: the FileNodes decoded so far, in the order traverse_nodes visits them
    docProperties,\* self._properties
    docLinks,     \* self._links
    docFiles,     \* self._files
    docRet,       \* SpecDoc: the last call of the query interface and how it ended
    wFile,        \* Spec: the bytes of the file
    wPos,         \* Spec: fh_onenote.tell()
    wPc,          \* Spec: where the construction of the root FileNodeList stands
    wErr,         \* Spec: the exception that ended the walk
    wStack,       \* Spec: the FileNodeLists under construction, the innermost last
    wLast,        \* Spec: the FileNode whose construction returned last (history)
    wSeek,        \* Spec: the last seek to the stp of a reference (history)
    wDecoded,     \* Spec: the offsets at which a FileNodeListFragment was decoded (history)
    urlText,      \* SpecUrl: the text given to _extract_urls_from_text
    urlPc,        \* SpecUrl: "text", "extracted" or "reapplied"
    urlOut,       \* SpecUrl: the list _extract_urls_from_text returned
    urlAgain,     \* SpecUrl: what it returned for each URL of urlOut
    mFile,        \* SpecMain: the bytes of the input file
    mJson,        \* SpecMain: the argument json_output
    mPos,         \* SpecMain: fh_onenote.tell()
    mPc,          \* SpecMain: where process_onenote_file stands
    mErr,         \* SpecMain: the exception that ended process_onenote_file, or ""
    mHeader,      \* SpecMain: document.header
    fmtPc,        \* SpecFmt: "idle", then "returned" or "raised" by get_properties()
    fmtOut,       \* SpecFmt: self._formated_properties of the decoded PropertySet
    fmtErr        \* SpecFmt: the exception the last get_properties() ended with, or ""

fcrVars == <<fcrShape, fcrRawStp, fcrRawCb, fcrObj, fcrNil, fcrPc>>

psVars == <<psBuf, psPos, psPc, psErr, psStreams, psStack, psResult>>

docVars == <<docPc, cur_revision, gidt, docNodes, docProperties, docLinks, docFiles,
             docRet>>

wVars == <<wFile, wPos, wPc, wErr, wStack, wLast, wSeek, wDecoded>>

urlVars == <<urlText, urlPc, urlOut, urlAgain>>

mVars == <<mFile, mJson, mPos, mPc, mErr, mHeader>>

fmtVars == <<fmtPc, fmtOut, fmtErr>>

vars == <<fcrVars, psVars, docVars, wVars, urlVars, mVars, fmtVars>>

\* the URL extraction while another specification runs
UrlIdle ==
    /\ urlText = <<>>
    /\ urlPc = "idle"
    /\ urlOut = <<>>
    /\ urlAgain = <<>>

\* document.header before Header() has returned
NoDocHeader == [guidFileType |-> <<>>]

\* process_onenote_file while another specification runs
MainIdle ==
    /\ mFile = <<>>
    /\ mJson = FALSE
    /\ mPos = 0
    /\ mPc = "idle"
    /\ mErr = ""
    /\ mHeader = NoDocHeader

\* the formatting of a property set while another specification runs
FmtIdle ==
    /\ fmtPc = "idle"
    /\ fmtOut = [isNone |-> TRUE, val |-> <<>>]
    /\ fmtErr = ""

\* the value of a reference field before it is set
NoFcr == [ stp |-> {}, cb |-> {}, invalid |-> {} ]

\* the variables of SpecFcr while another specification runs
FcrIdle ==
    /\ fcrShape = [ kind |-> "x32", stpFormat |-> 1, cbFormat |-> 0 ]
    /\ fcrRawStp = {}
    /\ fcrRawCb = {}
    /\ fcrObj = NoFcr
    /\ fcrNil = FALSE
    /\ fcrPc = "idle"

\* document.cur_revision as OneDocument.__init__ leaves it.  ExtendedGUID defines
\* neither __eq__ nor __hash__: as a dictionary key a revision is the object
\* itself, here the rid it holds together with the serial number of the object
NoRevision == [rid |-> <<>>, obj |-> 0]

\* a cache attribute that is still None
NoCache == [isNone |-> TRUE, val |-> <<>>]

\* cached: the call returned the cache it found
NoCall == [call |-> "none", include_text_urls |-> TRUE, cached |-> FALSE, err |-> ""]

\* the document while another specification runs
DocIdle ==
    /\ docPc = "idle"
    /\ cur_revision = NoRevision
    /\ gidt = <<>>
    /\ docNodes = <<>>
    /\ docProperties = NoCache
    /\ docLinks = NoCache
    /\ docFiles = NoCache
    /\ docRet = NoCall

\* no FileNode yet
NoNode == [start |-> 0, file_node_id |-> 0, unknown |-> FALSE, hex |-> <<>>, size |-> 0,
           baseType |-> 0, after |-> 0, uintMagic |-> <<>>]

NoSeek == [kind |-> "none", nil |-> FALSE]

\* the walker while another specification runs
WalkIdle ==
    /\ wFile = <<>>
    /\ wPos = 0
    /\ wPc = "idle"
    /\ wErr = ""
    /\ wStack = <<>>
    /\ wLast = NoNode
    /\ wSeek = NoSeek
    /\ wDecoded = <<>>

---------------------------------------------------------------------------
(* Bit sets as unsigned integers.                                          *)

\* all ones over w bits: 0xFF..F
Ones(w) == 0 .. (w - 1)

\* value * 8
Times8(bits) == { b + 3 : b \in bits }

\* a & b
BitAnd(a, b) == a \cap b

---------------------------------------------------------------------------
(* FileNodeChunkReference, FileChunkReference64x32, FileChunkReference32.  *)

\* width in bits of the stp field for a stpFormat (struct codes Q, I, H, I)
StpWidth(stpFormat) ==
    CASE stpFormat = 0 -> 64
      [] stpFormat = 1 -> 32
      [] stpFormat = 2 -> 16
      [] stpFormat = 3 -> 32

\* width in bits of the cb field for a cbFormat (struct codes I, Q, B, H)
CbWidth(cbFormat) ==
    CASE cbFormat = 0 -> 32
      [] cbFormat = 1 -> 64
      [] cbFormat = 2 -> 8
      [] cbFormat = 3 -> 16

\* number of bytes FileNodeChunkReference reads (data_size)
FcrDataSize(stpFormat, cbFormat) == (StpWidth(stpFormat) + CbWidth(cbFormat)) \div 8

StpCompressed(stpFormat) == stpFormat \in {2, 3}

CbCompressed(cbFormat) == cbFormat \in {2, 3}

\* a plausible slip: the sentinel of the 2-byte compressed form left unscaled
InvalidUnscaled(stpFormat) ==
    CASE stpFormat = 0 -> Ones(64)
      [] stpFormat = 1 -> Ones(32)
      [] stpFormat = 2 -> Ones(16)
      [] stpFormat = 3 -> 3 .. 34

\* self.invalid: 0xffffffffffffffff, 0xffffffff, 0x7fff8, 0x7fffffff8
Invalid(stpFormat) ==
    CASE stpFormat = 0 -> Ones(64)
      [] stpFormat = 1 -> Ones(32)
      [] stpFormat = 2 -> 3 .. 18
      [] stpFormat = 3 -> 3 .. 34

\* FileNodeChunkReference.__init__ on the unpacked fields
FileNodeChunkReference(stpFormat, cbFormat, rawStp, rawCb) ==
    [ stp     |-> IF StpCompressed(stpFormat) THEN Times8(rawStp) ELSE rawStp,
      cb      |-> IF CbCompressed(cbFormat) THEN Times8(rawCb) ELSE rawCb,
      invalid |-> Invalid(stpFormat) ]

\* FileChunkReference64x32.__init__: '<QI', invalid = 0xffffffffffffffff
FileChunkReference64x32(rawStp, rawCb) ==
    [ stp |-> rawStp, cb |-> rawCb, invalid |-> Ones(64) ]

\* FileChunkReference32.__init__: '<II', invalid = 0xffffffff
FileChunkReference32(rawStp, rawCb) ==
    [ stp |-> rawStp, cb |-> rawCb, invalid |-> Ones(32) ]

\* isFcrNil: (self.stp & self.invalid) == self.invalid and self.cb == 0
isFcrNil(ref) == BitAnd(ref.stp, ref.invalid) = ref.invalid /\ ref.cb = {}


---------------------------------------------------------------------------
(* Reading little-endian fields from a byte sequence.  A 32-bit field is   *)
(* kept as its four bytes where bit 31 may be set; its bit fields are      *)
(* taken from the bytes that hold them.                                    *)

\* fh.read(n) at offset pos returns n bytes (struct.unpack raises otherwise)
CanRead(buf, pos, n) == pos + n <= Len(buf)

Slice(buf, pos, n) == SubSeq(buf, pos + 1, pos + n)

\* '<H' and the low 24 bits of '<I'
U16(b) == b[1] + 256 * b[2]

U24(b) == b[1] + 256 * b[2] + 65536 * b[3]

\* '<I' for values below 2^31
U32(b) == b[1] + 256 * b[2] + 65536 * b[3] + 16777216 * b[4]

---------------------------------------------------------------------------
(* ObjectSpaceObjectPropSet, ObjectSpaceObjectStreamOfIDs, PropertySet.    *)

NoStream == [ present |-> FALSE, Count |-> 0, ExtendedStreamsPresent |-> FALSE,
              OsidStreamNotPresent |-> FALSE, body |-> <<>>, head |-> 0,
              at |-> 0, end |-> 0 ]

\* CompactID.__init__: n = data & 0xff, guidIndex = data >> 8
CompactIDOf(b) == [ n |-> b[1], guidIndex |-> U24(<<b[2], b[3], b[4]>>) ]

\* ObjectSpaceObjectStreamOfIDs.__init__ with ObjectSpaceObjectStreamHeader:
\* Count = data & 0xffffff, ExtendedStreamsPresent = bit 30,
\* OsidStreamNotPresent = bit 31, then Count CompactIDs; head = 0
ObjectSpaceObjectStreamOfIDs(buf, pos) ==
    IF ~CanRead(buf, pos, 4) THEN [ ok |-> FALSE, stream |-> NoStream ]
    ELSE LET h == Slice(buf, pos, 4)
             count == U24(h)
         IN  IF ~CanRead(buf, pos + 4, 4 * count)
             THEN [ ok |-> FALSE, stream |-> NoStream ]
             ELSE [ ok |-> TRUE,
                    stream |->
                      [ present |-> TRUE,
                        Count |-> count,
                        ExtendedStreamsPresent |-> (h[4] \div 64) % 2 = 1,
                        OsidStreamNotPresent |-> (h[4] \div 128) % 2 = 1,
                        body |-> [ i \in 1 .. count |->
                                     CompactIDOf(Slice(buf, pos + 4 * i, 4)) ],
                        head |-> 0,
                        at |-> pos,
                        end |-> pos + 4 + 4 * count ] ]

\* ObjectSpaceObjectStreamOfIDs.read: body[head] if head < len(body), else None;
\* head stays where it is
StreamRead(stream) ==
    IF stream.head < Len(stream.body)
    THEN [ tag |-> "cid", cid |-> stream.body[stream.head + 1], from |-> stream.head ]
    ELSE [ tag |-> "None", cid |-> [ n |-> 0, guidIndex |-> 0 ], from |-> stream.head ]

\* PropertySet.get_compact_ids: count reads of the stream
get_compact_ids(stream, count) == [ i \in 1 .. count |-> StreamRead(stream) ]

\* PropertyID.__init__: type = (value >> 26) & 0x1f, boolValue = bit 31
PropertyID(b) ==
    [ bytes |-> b, type |-> (b[4] \div 4) % 32, boolValue |-> (b[4] \div 128) % 2 = 1 ]

\* a plausible slip: the 8-byte type read as 4 bytes
FixedSizeShort(type) ==
    CASE type = 3 -> 1 [] type = 4 -> 2 [] type = 5 -> 4 [] type = 6 -> 4

\* the struct formats 'c', '2s', '4s', '8s' of types 0x3 .. 0x6
FixedSize(type) ==
    CASE type = 3 -> 1 [] type = 4 -> 2 [] type = 5 -> 4 [] type = 6 -> 8

\* the stream a type reads from: OIDs for 0x8/0x9, OSIDs for 0xA/0xB,
\* ContextIDs for 0xC/0xD
StreamOfType(streams, type) ==
    CASE type \in {8, 9}   -> streams.OIDs
      [] type \in {10, 11} -> streams.OSIDs
      [] type \in {12, 13} -> streams.ContextIDs

\* PropertySet.__init__, first part: cProperties, then cProperties PropertyIDs
PropertySetHeader(buf, pos) ==
    IF ~CanRead(buf, pos, 2) THEN [ ok |-> FALSE ]
    ELSE LET c == U16(Slice(buf, pos, 2))
         IN  IF ~CanRead(buf, pos + 2, 4 * c) THEN [ ok |-> FALSE ]
             ELSE [ ok |-> TRUE,
                    set |-> [ current |-> pos,
                              cProperties |-> c,
                              rgPrids |-> [ i \in 1 .. c |->
                                  PropertyID(Slice(buf, pos + 2 + 4 * (i - 1), 4)) ],
                              rgData |-> <<>> ],
                    pos |-> pos + 2 + 4 * c ]

\* a plausible slip: ArrayOfPropertyValues refused as any other invalid type
PropertyValueOneError(buf, pos, streams, prid) ==
    LET t == prid.type
        fail(e) == [ ok |-> FALSE, err |-> e ]
        done(v, n) == [ ok |-> TRUE, val |-> v, pos |-> pos + n ]
    IN  CASE t = 1 -> done([ tag |-> "None" ], 0)
          [] t = 2 -> done([ tag |-> "bool", b |-> prid.boolValue ], 0)
          [] t \in 3 .. 6 ->
               IF CanRead(buf, pos, FixedSize(t))
               THEN done([ tag |-> "bytes", Data |-> Slice(buf, pos, FixedSize(t)) ],
                         FixedSize(t))
               ELSE fail("struct.error")
          [] t = 7 ->
               IF ~CanRead(buf, pos, 4) THEN fail("struct.error")
               ELSE LET cb == U32(Slice(buf, pos, 4))
                    IN  IF CanRead(buf, pos + 4, cb)
                        THEN done([ tag |-> "prt", cb |-> cb,
                                    Data |-> Slice(buf, pos + 4, cb) ], 4 + cb)
                        ELSE fail("struct.error")
          [] t \in {8, 10, 12} ->
               IF StreamOfType(streams, t).present
               THEN done([ tag |-> "ids",
                           ids |-> get_compact_ids(StreamOfType(streams, t), 1) ], 0)
               ELSE fail("AttributeError")
          [] t \in {9, 11, 13} ->
               IF ~CanRead(buf, pos, 4) THEN fail("struct.error")
               ELSE LET count == U32(Slice(buf, pos, 4))
                    IN  IF count > 0 /\ ~StreamOfType(streams, t).present
                        THEN fail("AttributeError")
                        ELSE done([ tag |-> "ids",
                                    ids |-> get_compact_ids(StreamOfType(streams, t),
                                                            count) ], 4)
          [] t = 16 -> fail("ValueError")
          [] OTHER -> fail("ValueError")

\* one pass of the value loop of PropertySet.__init__ for a type that is not
\* 0x11: the value appended to rgData and the reader position after it, or
\* the exception raised
PropertyValue(buf, pos, streams, prid) ==
    LET t == prid.type
        fail(e) == [ ok |-> FALSE, err |-> e ]
        done(v, n) == [ ok |-> TRUE, val |-> v, pos |-> pos + n ]
    IN  CASE t = 1 -> done([ tag |-> "None" ], 0)
          [] t = 2 -> done([ tag |-> "bool", b |-> prid.boolValue ], 0)
          [] t \in 3 .. 6 ->
               IF CanRead(buf, pos, FixedSize(t))
               THEN done([ tag |-> "bytes", Data |-> Slice(buf, pos, FixedSize(t)) ],
                         FixedSize(t))
               ELSE fail("struct.error")
          [] t = 7 ->
               IF ~CanRead(buf, pos, 4) THEN fail("struct.error")
               ELSE LET cb == U32(Slice(buf, pos, 4))
                    IN  IF CanRead(buf, pos + 4, cb)
                        THEN done([ tag |-> "prt", cb |-> cb,
                                    Data |-> Slice(buf, pos + 4, cb) ], 4 + cb)
                        ELSE fail("struct.error")
          [] t \in {8, 10, 12} ->
               IF StreamOfType(streams, t).present
               THEN done([ tag |-> "ids",
                           ids |-> get_compact_ids(StreamOfType(streams, t), 1) ], 0)
               ELSE fail("AttributeError")
          [] t \in {9, 11, 13} ->
               IF ~CanRead(buf, pos, 4) THEN fail("struct.error")
               ELSE LET count == U32(Slice(buf, pos, 4))
                    IN  IF count > 0 /\ ~StreamOfType(streams, t).present
                        THEN fail("AttributeError")
                        ELSE done([ tag |-> "ids",
                                    ids |-> get_compact_ids(StreamOfType(streams, t),
                                                            count) ], 4)
          [] t = 16 -> fail("NotImplementedError")
          [] OTHER -> fail("ValueError")


---------------------------------------------------------------------------
(* Text.  A str is the sequence of its characters; "NUL" stands for the    *)
(* character \x00, "U3001" and "U3002" for the ideographic comma and stop. *)

UpperAlpha == << "A", "B", "C", "D", "E", "F", "G", "H", "I", "J", "K", "L", "M",
                 "N", "O", "P", "Q", "R", "S", "T", "U", "V", "W", "X", "Y", "Z" >>

LowerAlpha == << "a", "b", "c", "d", "e", "f", "g", "h", "i", "j", "k", "l", "m",
                 "n", "o", "p", "q", "r", "s", "t", "u", "v", "w", "x", "y", "z" >>

LowerCh(c) ==
    IF \E i \in 1 .. 26 : UpperAlpha[i] = c
    THEN LowerAlpha[CHOOSE i \in 1 .. 26 : UpperAlpha[i] = c]
    ELSE c

\* a plausible slip: the case left as it is
LowerForgotten(str) == str

\* str.lower()
Lower(str) == [ i \in 1 .. Len(str) |-> LowerCh(str[i]) ]

StartsWithAt(str, i, pat) ==
    /\ i + Len(pat) - 1 <= Len(str)
    /\ \A j \in 1 .. Len(pat) : str[i + j - 1] = pat[j]

\* str.replace(pat, ""): every occurrence of pat removed, left to right
RECURSIVE RemoveFrom(_, _, _)
RemoveFrom(str, i, pat) ==
    IF i > Len(str) THEN <<>>
    ELSE IF StartsWithAt(str, i, pat) THEN RemoveFrom(str, i + Len(pat), pat)
    ELSE <<str[i]>> \o RemoveFrom(str, i + 1, pat)

\* the whitespace of str.strip() and of \s
IsSpace(c) == c \in {" ", "\t", "\n", "\r"}

\* str.rstrip(chars)
RECURSIVE RStrip(_, _)
RStrip(str, chars) ==
    IF Len(str) > 0 /\ str[Len(str)] \in chars
    THEN RStrip(SubSeq(str, 1, Len(str) - 1), chars)
    ELSE str

\* str.strip()
RECURSIVE Strip(_)
Strip(str) ==
    IF Len(str) > 0 /\ IsSpace(str[1]) THEN Strip(SubSeq(str, 2, Len(str)))
    ELSE IF Len(str) > 0 /\ IsSpace(str[Len(str)])
    THEN Strip(SubSeq(str, 1, Len(str) - 1))
    ELSE str

\* the two lowercase hexadecimal digits of a byte, as str(uuid.UUID) and
\* bytes.hex() write each byte
HexLower == << "0", "1", "2", "3", "4", "5", "6", "7", "8", "9",
               "a", "b", "c", "d", "e", "f" >>

Hex2(byte) == << HexLower[(byte \div 16) + 1], HexLower[(byte % 16) + 1] >>

---------------------------------------------------------------------------
(* OneDocument._extract_urls_from_text.                                    *)

\* the alternatives https?://, mailto:, onenote: of the pattern
UrlSchemes == << << "h", "t", "t", "p", "s", ":", "/", "/" >>,
                 << "h", "t", "t", "p", ":", "/", "/" >>,
                 << "m", "a", "i", "l", "t", "o", ":" >>,
                 << "o", "n", "e", "n", "o", "t", "e", ":" >> >>

\* the class [^\s<>"']
UrlChar(c) == ~IsSpace(c) /\ c \notin {"<", ">", "\"", "'"}

\* the characters of url.rstrip(...)
UrlTrim == {")", "]", ".", ",", ";", ":", "!", "?", "\"", "'", "U3001", "U3002"}

\* the length of the scheme matched at i (flags=re.IGNORECASE), or 0
SchemeAt(text, i) ==
    LET hit == { k \in 1 .. Len(UrlSchemes) :
                   StartsWithAt(Lower(text), i, UrlSchemes[k]) }
    IN  IF hit = {} THEN 0
        ELSE Len(UrlSchemes[CHOOSE k \in hit : \A m \in hit : k <= m])

\* the end of the longest run of UrlChar from i on (i - 1 if there is none)
RECURSIVE RunEnd(_, _)
RunEnd(text, i) ==
    IF i <= Len(text) /\ UrlChar(text[i]) THEN RunEnd(text, i + 1) ELSE i - 1

\* re.findall: the matches from left to right, none overlapping another
RECURSIVE FindAll(_, _)
FindAll(text, i) ==
    IF i > Len(text) THEN <<>>
    ELSE LET n == SchemeAt(text, i)
             e == RunEnd(text, i + n)
         IN  IF n > 0 /\ e >= i + n
             THEN <<SubSeq(text, i, e)>> \o FindAll(text, e + 1)
             ELSE FindAll(text, i + 1)

\* the loop over the matches: trimmed, empty ones and repeats dropped
RECURSIVE UniqueTrimmed(_, _, _)
UniqueTrimmed(matches, k, urls) ==
    IF k > Len(matches) THEN urls
    ELSE LET url == RStrip(matches[k], UrlTrim)
         IN  IF Len(url) > 0 /\ \A j \in 1 .. Len(urls) : urls[j] # url
             THEN UniqueTrimmed(matches, k + 1, Append(urls, url))
             ELSE UniqueTrimmed(matches, k + 1, urls)

extract_urls_from_text(text) == UniqueTrimmed(FindAll(text, 1), 1, <<>>)

---------------------------------------------------------------------------
(* SpecPs: one ObjectSpaceObjectPropSet decoded from the bytes of a buffer. *)
(* The buffers are built from a description (the flags of the OIDs header, *)
(* a list of property types with their payloads, nested sets included)     *)
(* and may stop one byte short; the decoder sees the bytes only.           *)

\* the longest list of properties of a generated set
MaxProps == 2

\* a generated buffer is whole, or stops one byte short
Cuts == {0, 1}

EncU16(n) == << n % 256, n \div 256 >>

EncU32(n) == << n % 256, (n \div 256) % 256, (n \div 65536) % 256, n \div 16777216 >>

Payload(n) == [ i \in 1 .. n |-> 16 + i ]

\* properties without a nested set: [type, arg], arg being the boolValue bit
\* of type 0x2, the cb of type 0x7, the count of types 0x9, 0xB, 0xD
LeafItems ==
    [ type : {0, 1, 3, 4, 5, 6, 8, 10, 12, 14, 16, 18, 31}, arg : {0},
      inner : {<<>>} ]
      \cup [ type : {2}, arg : {0, 1}, inner : {<<>>} ]
      \cup [ type : {7}, arg : {0, 3}, inner : {<<>>} ]
      \cup [ type : {9, 11, 13}, arg : {0, 2}, inner : {<<>>} ]

InnerItems ==
    { [ type |-> 2, arg |-> 1, inner |-> <<>> ],
      [ type |-> 5, arg |-> 0, inner |-> <<>> ],
      [ type |-> 7, arg |-> 3, inner |-> <<>> ],
      [ type |-> 9, arg |-> 2, inner |-> <<>> ],
      [ type |-> 0, arg |-> 0, inner |-> <<>> ],
      [ type |-> 17, arg |-> 0, inner |-> <<>> ] }

PsItems ==
    LeafItems \cup
      { [ type |-> 17, arg |-> 0, inner |-> s ] :
          s \in {<<>>} \cup { <<i>> : i \in InnerItems } }

PsShapes == UNION { [ 1 .. n -> PsItems ] : n \in 0 .. MaxProps }

\* the four bytes of a PropertyID: id 0x001C00, the type in bits 26..30,
\* boolValue in bit 31
EncPrid(item) ==
    << 0, 28, 0, item.type * 4 + (IF item.type = 2 /\ item.arg = 1 THEN 128 ELSE 0) >>

RECURSIVE EncSet(_)
EncValue(item) ==
    CASE item.type = 3 -> Payload(1)
      [] item.type = 4 -> Payload(2)
      [] item.type = 5 -> Payload(4)
      [] item.type = 6 -> Payload(8)
      [] item.type = 7 -> EncU32(item.arg) \o Payload(item.arg)
      [] item.type \in {9, 11, 13} -> EncU32(item.arg)
      [] item.type = 17 -> EncSet(item.inner)
      [] OTHER -> <<>>

RECURSIVE EncAll(_, _)
EncAll(items, k) ==
    IF k > Len(items) THEN <<>>
    ELSE EncPrid(items[k]) \o EncAll(items, k + 1)

RECURSIVE EncVals(_, _)
EncVals(items, k) ==
    IF k > Len(items) THEN <<>>
    ELSE EncValue(items[k]) \o EncVals(items, k + 1)

EncSet(items) == EncU16(Len(items)) \o EncAll(items, 1) \o EncVals(items, 1)

\* the streams: OIDs with two CompactIDs, then OSIDs and ContextIDs with one
\* each when the flags of the OIDs header announce them
EncStreams(osidNotPresent, extendedPresent) ==
    << 2, 0, 0, (IF osidNotPresent THEN 128 ELSE 0) + (IF extendedPresent THEN 64 ELSE 0) >>
      \o << 1, 7, 0, 0 >> \o << 2, 8, 0, 0 >>
      \o (IF osidNotPresent THEN <<>> ELSE << 1, 0, 0, 0 >> \o << 3, 9, 0, 0 >>)
      \o (IF extendedPresent THEN << 1, 0, 0, 0 >> \o << 4, 10, 0, 0 >> ELSE <<>>)

NoSet == [ current |-> 0, cProperties |-> 0, rgPrids |-> <<>>, rgData |-> <<>> ]

PsIdle ==
    /\ psBuf = <<>>
    /\ psPos = 0
    /\ psPc = "idle"
    /\ psErr = ""
    /\ psStreams = [ OIDs |-> NoStream, OSIDs |-> NoStream, ContextIDs |-> NoStream ]
    /\ psStack = <<>>
    /\ psResult = NoSet

InitPs ==
    /\ FcrIdle
    /\ DocIdle
    /\ WalkIdle
    /\ UrlIdle
    /\ MainIdle
    /\ FmtIdle
    /\ \E shape \in PsShapes, nop \in BOOLEAN, ext \in BOOLEAN, cut \in Cuts :
         LET bytes == EncStreams(nop, ext) \o EncSet(shape)
         IN  psBuf = SubSeq(bytes, 1, Len(bytes) - cut)
    /\ psPos = 0
    /\ psPc = "streams"
    /\ psErr = ""
    /\ psStreams = [ OIDs |-> NoStream, OSIDs |-> NoStream, ContextIDs |-> NoStream ]
    /\ psStack = <<>>
    /\ psResult = NoSet

PsRaise(e) ==
    /\ psPc' = "error"
    /\ psErr' = e
    /\ UNCHANGED <<psBuf, psPos, psStreams, psStack, psResult>>

\* a plausible slip: OsidStreamNotPresent read as the presence of OSIDs
PsStreamsInverted ==
    /\ psPc = "streams"
    /\ LET r1 == ObjectSpaceObjectStreamOfIDs(psBuf, psPos)
       IN  IF ~r1.ok THEN PsRaise("struct.error")
           ELSE LET p1 == r1.stream.end
                    want2 == r1.stream.OsidStreamNotPresent
                    r2 == IF want2 THEN ObjectSpaceObjectStreamOfIDs(psBuf, p1)
                          ELSE [ ok |-> TRUE, stream |-> NoStream ]
                IN  IF ~r2.ok THEN PsRaise("struct.error")
                    ELSE LET p2 == IF want2 THEN r2.stream.end ELSE p1
                             want3 == r1.stream.ExtendedStreamsPresent
                             r3 == IF want3 THEN ObjectSpaceObjectStreamOfIDs(psBuf, p2)
                                   ELSE [ ok |-> TRUE, stream |-> NoStream ]
                         IN  IF ~r3.ok THEN PsRaise("struct.error")
                             ELSE /\ psStreams' = [ OIDs |-> r1.stream,
                                                    OSIDs |-> r2.stream,
                                                    ContextIDs |-> r3.stream ]
                                  /\ psPos' = IF want3 THEN r3.stream.end ELSE p2
                                  /\ psPc' = "body"
                                  /\ UNCHANGED <<psBuf, psErr, psStack, psResult>>

\* ObjectSpaceObjectPropSet.__init__ up to the call of PropertySet: OIDs,
\* OSIDs unless OsidStreamNotPresent, ContextIDs if ExtendedStreamsPresent
PsStreams ==
    /\ psPc = "streams"
    /\ LET r1 == ObjectSpaceObjectStreamOfIDs(psBuf, psPos)
       IN  IF ~r1.ok THEN PsRaise("struct.error")
           ELSE LET p1 == r1.stream.end
                    want2 == ~r1.stream.OsidStreamNotPresent
                    r2 == IF want2 THEN ObjectSpaceObjectStreamOfIDs(psBuf, p1)
                          ELSE [ ok |-> TRUE, stream |-> NoStream ]
                IN  IF ~r2.ok THEN PsRaise("struct.error")
                    ELSE LET p2 == IF want2 THEN r2.stream.end ELSE p1
                             want3 == r1.stream.ExtendedStreamsPresent
                             r3 == IF want3 THEN ObjectSpaceObjectStreamOfIDs(psBuf, p2)
                                   ELSE [ ok |-> TRUE, stream |-> NoStream ]
                         IN  IF ~r3.ok THEN PsRaise("struct.error")
                             ELSE /\ psStreams' = [ OIDs |-> r1.stream,
                                                    OSIDs |-> r2.stream,
                                                    ContextIDs |-> r3.stream ]
                                  /\ psPos' = IF want3 THEN r3.stream.end ELSE p2
                                  /\ psPc' = "body"
                                  /\ UNCHANGED <<psBuf, psErr, psStack, psResult>>

\* the head of PropertySet.__init__ (cProperties and rgPrids), for the body of
\* the prop set and for a value of type 0x11
PsOpenSet ==
    LET r == PropertySetHeader(psBuf, psPos)
    IN  IF ~r.ok THEN PsRaise("struct.error")
        ELSE /\ psStack' = Append(psStack, r.set)
             /\ psPos' = r.pos
             /\ psPc' = "values"
             /\ UNCHANGED <<psBuf, psErr, psStreams, psResult>>

PsBody ==
    /\ psPc = "body"
    /\ PsOpenSet

PsTop == psStack[Len(psStack)]

PsNextPrid == PsTop.rgPrids[Len(PsTop.rgData) + 1]

PsAppend(stack, entry) ==
    [ stack EXCEPT ![Len(stack)].rgData = Append(@, entry) ]

\* one pass of the value loop for a type other than 0x11
PsValue ==
    /\ psPc = "values"
    /\ Len(PsTop.rgData) < PsTop.cProperties
    /\ PsNextPrid.type # 17
    /\ LET r == PropertyValue(psBuf, psPos, psStreams, PsNextPrid)
       IN  IF ~r.ok THEN PsRaise(r.err)
           ELSE /\ psStack' = PsAppend(psStack, [ val |-> r.val, at |-> psPos, to |-> r.pos ])
                /\ psPos' = r.pos
                /\ UNCHANGED <<psBuf, psPc, psErr, psStreams, psResult>>

\* a value of type 0x11: PropertySet(fh_onenote, OIDs, OSIDs, ContextIDs, document)
PsNestedSet ==
    /\ psPc = "values"
    /\ Len(PsTop.rgData) < PsTop.cProperties
    /\ PsNextPrid.type = 17
    /\ PsOpenSet

\* a plausible slip: the reader put back after the nested set, the way
\* FileNode.__init__ puts it back after a prop set
PsEndSetRestore ==
    /\ psPc = "values"
    /\ Len(PsTop.rgData) = PsTop.cProperties
    /\ IF Len(psStack) > 1
       THEN /\ psStack' = PsAppend(SubSeq(psStack, 1, Len(psStack) - 1),
                                   [ val |-> [ tag |-> "set", set |-> PsTop ],
                                     at |-> PsTop.current, to |-> psPos ])
            /\ psPos' = PsTop.current
            /\ UNCHANGED <<psBuf, psPc, psErr, psStreams, psResult>>
       ELSE /\ psResult' = PsTop
            /\ psStack' = <<>>
            /\ psPc' = "done"
            /\ UNCHANGED <<psBuf, psPos, psErr, psStreams>>

\* the value loop of a set is over: the set is the value of its type 0x11
\* property in the enclosing set, or the body of the prop set
PsEndSet ==
    /\ psPc = "values"
    /\ Len(PsTop.rgData) = PsTop.cProperties
    /\ IF Len(psStack) > 1
       THEN /\ psStack' = PsAppend(SubSeq(psStack, 1, Len(psStack) - 1),
                                   [ val |-> [ tag |-> "set", set |-> PsTop ],
                                     at |-> PsTop.current, to |-> psPos ])
            /\ UNCHANGED <<psBuf, psPos, psPc, psErr, psStreams, psResult>>
       ELSE /\ psResult' = PsTop
            /\ psStack' = <<>>
            /\ psPc' = "done"
            /\ UNCHANGED <<psBuf, psPos, psErr, psStreams>>

NextPs ==
    \/ (PsStreams /\ UNCHANGED <<fcrVars, docVars, wVars, urlVars, mVars, fmtVars>>)
    \/ (PsBody /\ UNCHANGED <<fcrVars, docVars, wVars, urlVars, mVars, fmtVars>>)
    \/ (PsValue /\ UNCHANGED <<fcrVars, docVars, wVars, urlVars, mVars, fmtVars>>)
    \/ (PsNestedSet /\ UNCHANGED <<fcrVars, docVars, wVars, urlVars, mVars, fmtVars>>)
    \/ (PsEndSet /\ UNCHANGED <<fcrVars, docVars, wVars, urlVars, mVars, fmtVars>>)

SpecPs == InitPs /\ [][NextPs]_vars

---------------------------------------------------------------------------
(* SpecFcr: every shape of reference, decoded from sampled raw fields.     *)

\* the shapes: a node reference with its two formats, or one of the fixed ones
FcrShapes ==
    [ kind : {"node"}, stpFormat : 0 .. 3, cbFormat : 0 .. 3 ]
      \cup { [ kind |-> "x64x32", stpFormat |-> 0, cbFormat |-> 0 ],
             [ kind |-> "x32",    stpFormat |-> 1, cbFormat |-> 0 ] }

\* raw values of a w-bit field: 0, all ones, and values near both
RawSamples(w) ==
    { {}, Ones(w), Ones(w - 1), 1 .. (w - 1), {0}, {w - 1},
      Ones(w \div 2), (w \div 2) .. (w - 1), Ones(w) \ {w \div 2} }

ShapeStpWidth(shape) == StpWidth(shape.stpFormat)

ShapeCbWidth(shape) == CbWidth(shape.cbFormat)

DecodeShape(shape, rawStp, rawCb) ==
    CASE shape.kind = "node"   ->
           FileNodeChunkReference(shape.stpFormat, shape.cbFormat, rawStp, rawCb)
      [] shape.kind = "x64x32" -> FileChunkReference64x32(rawStp, rawCb)
      [] shape.kind = "x32"    -> FileChunkReference32(rawStp, rawCb)

InitFcr ==
    /\ PsIdle
    /\ DocIdle
    /\ WalkIdle
    /\ UrlIdle
    /\ MainIdle
    /\ FmtIdle
    /\ fcrShape \in FcrShapes
    /\ fcrRawStp \in RawSamples(ShapeStpWidth(fcrShape))
    /\ fcrRawCb \in RawSamples(ShapeCbWidth(fcrShape))
    /\ fcrObj = NoFcr
    /\ fcrNil = FALSE
    /\ fcrPc = "raw"

\* the reference is constructed from the bytes
FcrDecode ==
    /\ fcrPc = "raw"
    /\ fcrObj' = DecodeShape(fcrShape, fcrRawStp, fcrRawCb)
    /\ fcrPc' = "decoded"
    /\ UNCHANGED <<fcrShape, fcrRawStp, fcrRawCb, fcrNil, psVars, docVars, wVars, urlVars, mVars, fmtVars>>

\* isFcrNil() is called on it
FcrTest ==
    /\ fcrPc = "decoded"
    /\ fcrNil' = isFcrNil(fcrObj)
    /\ fcrPc' = "tested"
    /\ UNCHANGED <<fcrShape, fcrRawStp, fcrRawCb, fcrObj, psVars, docVars, wVars, urlVars, mVars, fmtVars>>

NextFcr == FcrDecode \/ FcrTest

SpecFcr == InitFcr /\ [][NextFcr]_vars

---------------------------------------------------------------------------
(* The document: the Global Identification Table, the decoded nodes, and   *)
(* the queries of OneDocument.  A node is what FileNode.__init__ leaves of *)
(* it: its kind and the fields of its data that the queries read.          *)

\* d[k] = v on a dict
Put(d, k, v) == [ x \in (DOMAIN d) \cup {k} |-> IF x = k THEN v ELSE d[x] ]

\* CompactID.__init__: n, guidIndex, and the revision object current now
CompactID(n, guidIndex) ==
    [n |-> n, guidIndex |-> guidIndex, current_revision |-> cur_revision]

\* a plausible slip: the table read under the revision current at rendering
CompactIDStrNow(c) ==
    IF cur_revision \in DOMAIN gidt /\ c.guidIndex \in DOMAIN gidt[cur_revision]
    THEN [ok |-> TRUE, str |-> << gidt[cur_revision][c.guidIndex], c.n >>]
    ELSE [ok |-> FALSE, str |-> <<>>]

\* CompactID.__str__: the text '<ExtendedGUID> (guid, n)' is the pair of its
\* two fields; a key missing at either level of the table is a KeyError
CompactIDStr(c) ==
    IF /\ c.current_revision \in DOMAIN gidt
       /\ c.guidIndex \in DOMAIN gidt[c.current_revision]
    THEN [ok |-> TRUE, str |-> << gidt[c.current_revision][c.guidIndex], c.n >>]
    ELSE [ok |-> FALSE, str |-> <<>>]

\* [str(i) for i in rgData[i]] over the CompactIDs of a property value
RECURSIVE CompactIDStrs(_, _)
CompactIDStrs(ids, k) ==
    IF k > Len(ids) THEN [ok |-> TRUE, strs |-> <<>>]
    ELSE LET head == CompactIDStr(ids[k])
             rest == CompactIDStrs(ids, k + 1)
         IN  IF head.ok /\ rest.ok
             THEN [ok |-> TRUE, strs |-> <<head.str>> \o rest.strs]
             ELSE [ok |-> FALSE, strs |-> <<>>]

\* the loop of OneDocument.get_properties over the filtered nodes
RECURSIVE PropertiesOf(_, _, _)
PropertiesOf(nodes, k, acc) ==
    IF k > Len(nodes) THEN [val |-> acc, err |-> ""]
    ELSE IF nodes[k].kind # "ObjectDeclaration2RefCountFND" \/ ~nodes[k].jcid.IsPropertySet
    THEN PropertiesOf(nodes, k + 1, acc)
    ELSE LET identity == CompactIDStr(nodes[k].oid)
             ids == CompactIDStrs(nodes[k].propertySet.ObjectIDs, 1)
         IN  IF ~identity.ok \/ ~ids.ok THEN [val |-> acc, err |-> "KeyError"]
             ELSE PropertiesOf(nodes, k + 1, Append(acc,
                    [type |-> nodes[k].jcid.name,
                     identity |-> identity.str,
                     val |-> [WzHyperlinkUrl |-> nodes[k].propertySet.WzHyperlinkUrl,
                              RichEditTextUnicode |-> nodes[k].propertySet.RichEditTextUnicode,
                              ObjectIDs |-> ids.strs]]))

\* OneDocument.get_properties on the cache it finds
get_properties(cache) ==
    IF cache.val # <<>> THEN [cache |-> cache, err |-> ""]
    ELSE LET r == PropertiesOf(docNodes, 1, <<>>)
         IN  [cache |-> [isNone |-> FALSE, val |-> r.val], err |-> r.err]

\* a plausible slip: the link appended without a look at seen
AddLinkUnseen(acc, property_set, url, source) ==
    [links |-> Append(acc.links, [type |-> property_set.type,
                                  identity |-> property_set.identity,
                                  url |-> url, source |-> source]),
     seen |-> acc.seen \cup { << property_set.identity, url >> }]

\* key = (identity, url); if key not in seen: seen.add(key); _links.append(..)
AddLink(acc, property_set, url, source) ==
    IF << property_set.identity, url >> \in acc.seen THEN acc
    ELSE [links |-> Append(acc.links, [type |-> property_set.type,
                                       identity |-> property_set.identity,
                                       url |-> url, source |-> source]),
          seen |-> acc.seen \cup { << property_set.identity, url >> }]

\* for url in self._extract_urls_from_text(rich_text): ...
RECURSIVE AddTextLinks(_, _, _, _)
AddTextLinks(acc, property_set, urls, k) ==
    IF k > Len(urls) THEN acc
    ELSE AddTextLinks(AddLink(acc, property_set, urls[k], "RichEditTextUnicode"),
                      property_set, urls, k + 1)

\* the body of the loop of get_links for one property set
LinksOfSet(acc, property_set, include_text_urls) ==
    LET wz == property_set.val.WzHyperlinkUrl
        rich == property_set.val.RichEditTextUnicode
        url == Strip(RStrip(wz.s, {"NUL"}))
        acc1 == IF wz.tag = "str" /\ url # <<>>
                THEN AddLink(acc, property_set, url, "WzHyperlinkUrl")
                ELSE acc
    IN  IF include_text_urls /\ rich.tag = "str"
        THEN AddTextLinks(acc1, property_set, extract_urls_from_text(rich.s), 1)
        ELSE acc1

RECURSIVE LinksOf(_, _, _, _)
LinksOf(property_sets, k, include_text_urls, acc) ==
    IF k > Len(property_sets) THEN acc.links
    ELSE LinksOf(property_sets, k + 1, include_text_urls,
                 LinksOfSet(acc, property_sets[k], include_text_urls))

\* OneDocument.get_links on the caches it finds
get_links(links, properties, include_text_urls) ==
    IF ~links.isNone THEN [links |-> links, properties |-> properties, err |-> ""]
    ELSE LET p == get_properties(properties)
         IN  [links |-> [isNone |-> FALSE,
                         val |-> IF p.err # "" THEN <<>>
                                 ELSE LinksOf(p.cache.val, 1, include_text_urls,
                                              [links |-> <<>>, seen |-> {}])],
              properties |-> p.cache,
              err |-> p.err]

\* str(uuid.UUID): lowercase hexadecimal digits (a GUID is one byte here)
UuidStr(guid) == Hex2(guid)

\* {"extension": "", "content": "", "identity": ""}; the content of a new entry
\* is a str, FileData is bytes
NewFile == [extension |-> <<>>, content |-> [isBytes |-> FALSE, data |-> <<>>],
            identity |-> <<>>]

\* a plausible slip: the key taken from the string as it is written
FileKeyAsWritten(StringData) ==
    RemoveFrom(RemoveFrom(StringData, 1, << "<", "i", "f", "n", "d", "f", ">", "{" >>),
               1, << "}" >>)

\* StringData.replace("<ifndf>{", "").replace("}", "").lower()
FileKey(StringData) ==
    Lower(RemoveFrom(RemoveFrom(StringData, 1,
                                << "<", "i", "f", "n", "d", "f", ">", "{" >>),
                     1, << "}" >>))

\* the loop of OneDocument.get_files over the filtered nodes
RECURSIVE FilesOf(_, _, _)
FilesOf(nodes, k, files) ==
    IF k > Len(nodes) THEN [val |-> files, err |-> ""]
    ELSE IF nodes[k].kind = "FileDataStoreObjectReferenceFND"
    THEN LET key == UuidStr(nodes[k].guidReference)
             had == IF key \in DOMAIN files THEN files[key] ELSE NewFile
         IN  FilesOf(nodes, k + 1,
                     Put(files, key,
                         [had EXCEPT !.content =
                            [isBytes |-> TRUE, data |-> nodes[k].FileData]]))
    ELSE IF nodes[k].kind = "ObjectDeclarationFileData3RefCountFND"
    THEN LET guid == FileKey(nodes[k].FileDataReference)
             had == IF guid \in DOMAIN files THEN files[guid] ELSE NewFile
             ext == [had EXCEPT !.extension = nodes[k].Extension]
             identity == CompactIDStr(nodes[k].oid)
         IN  IF ~identity.ok
             THEN [val |-> Put(files, guid, ext), err |-> "KeyError"]
             ELSE FilesOf(nodes, k + 1,
                          Put(files, guid, [ext EXCEPT !.identity = identity.str]))
    ELSE FilesOf(nodes, k + 1, files)

\* OneDocument.get_files on the cache it finds
get_files(cache) ==
    IF DOMAIN cache.val # {} THEN [cache |-> cache, err |-> ""]
    ELSE LET r == FilesOf(docNodes, 1, <<>>)
         IN  [cache |-> [isNone |-> FALSE, val |-> r.val], err |-> r.err]

\* bytes.hex()
RECURSIVE BytesHex(_)
BytesHex(data) ==
    IF data = <<>> THEN <<>> ELSE Hex2(Head(data)) \o BytesHex(Tail(data))

\* a plausible slip: the content converted in place, in the entry of the cache
get_jsonInPlace(files, properties, links) ==
    LET f == get_files(files)
        noHex == { key \in DOMAIN f.cache.val : ~f.cache.val[key].content.isBytes }
        p == get_properties(properties)
        l == get_links(links, p.cache, TRUE)
        hexed == [ key \in DOMAIN f.cache.val |->
                     [f.cache.val[key] EXCEPT !.content =
                        [isBytes |-> FALSE, data |-> BytesHex(@.data)]] ]
    IN  IF f.err # "" \/ noHex # {}
        THEN [files |-> f.cache, properties |-> properties, links |-> links,
              res |-> <<>>, err |-> IF f.err # "" THEN f.err ELSE "AttributeError"]
        ELSE [files |-> [f.cache EXCEPT !.val = hexed],
              properties |-> l.properties, links |-> l.links,
              res |-> hexed, err |-> IF p.err # "" THEN p.err ELSE l.err]

\* OneDocument.get_json: the files with their content in hexadecimal (a content
\* still "" has no hex()), then the properties, then the links
get_json(files, properties, links) ==
    LET f == get_files(files)
        noHex == { key \in DOMAIN f.cache.val : ~f.cache.val[key].content.isBytes }
        p == get_properties(properties)
        l == get_links(links, p.cache, TRUE)
        same == [files |-> f.cache, properties |-> properties, links |-> links,
                 res |-> <<>>]
    IN  IF f.err # "" THEN same @@ [err |-> f.err]
        ELSE IF noHex # {} THEN same @@ [err |-> "AttributeError"]
        ELSE IF p.err # ""
        THEN [same EXCEPT !.properties = p.cache] @@ [err |-> p.err]
        ELSE [files |-> f.cache, properties |-> l.properties, links |-> l.links,
              res |-> [ key \in DOMAIN f.cache.val |->
                          [extension |-> f.cache.val[key].extension,
                           content |-> BytesHex(f.cache.val[key].content.data),
                           identity |-> f.cache.val[key].identity] ],
              err |-> l.err]

---------------------------------------------------------------------------
(* SpecDoc and SpecFiles: the nodes arrive one by one in the order of the  *)
(* traversal, with the effect FileNode.__init__ has on the document; after *)
(* construction the queries are called in any order.  The nodes are drawn  *)
(* from the samples below.                                                 *)

MaxVisits == 3

RevisionIds == { << 82, 1 >> }

Absent == [tag |-> "absent", s |-> <<>>]

Str(chars) == [tag |-> "str", s |-> chars]

\* a value that get_properties formats as a list
AList == [tag |-> "list", s |-> <<>>]

\* the formatted values of WzHyperlinkUrl and RichEditTextUnicode and the
\* guidIndex values of the object references of one property set
PropertySetSamples ==
    { [WzHyperlinkUrl |-> Str(<< "h", "t", "t", "p", ":", "/", "/", "a" >>),
       RichEditTextUnicode |-> Absent, ObjectIDs |-> <<>>],
      [WzHyperlinkUrl |-> Str(<< " ", "h", "t", "t", "p", ":", "/", "/", "a", "NUL" >>),
       RichEditTextUnicode |-> Str(<< "s", "e", "e", " ", "H", "T", "T", "P", ":", "/", "/", "b", ",", " ", "h", "t", "t", "p", ":", "/", "/", "a", "." >>),
       ObjectIDs |-> <<>>],
      [WzHyperlinkUrl |-> AList,
       RichEditTextUnicode |-> Str(<< "m", "a", "i", "l", "t", "o", ":", "c", " ", "<", "m", "a", "i", "l", "t", "o", ":", "c", ">" >>),
       ObjectIDs |-> <<>>],
      [WzHyperlinkUrl |-> Absent, RichEditTextUnicode |-> Absent, ObjectIDs |-> <<7>>] }

DeclSamples ==
    { [IsPropertySet |-> FALSE, propertySet |-> ps] :
         ps \in { [WzHyperlinkUrl |-> Absent, RichEditTextUnicode |-> Absent,
                   ObjectIDs |-> <<>>] } }
    \cup { [IsPropertySet |-> TRUE, propertySet |-> ps] : ps \in PropertySetSamples }

DeclIndexes == {7, 8}

EntrySamples == { [index |-> 7, guid |-> 17], [index |-> 7, guid |-> 34],
                  [index |-> 8, guid |-> 17] }

\* the nodes of SpecFiles
FilesDeclSamples ==
    { [IsPropertySet |-> TRUE,
       propertySet |-> [WzHyperlinkUrl |-> Str(<< "h", "t", "t", "p", ":", "/", "/", "a" >>),
                        RichEditTextUnicode |-> Absent, ObjectIDs |-> <<>>]] }

FilesEntrySamples == { [index |-> 7, guid |-> 17] }

FileDataSamples == { [guidReference |-> 161, FileData |-> << 137, 80 >>],
                     [guidReference |-> 161, FileData |-> <<>>],
                     [guidReference |-> 178, FileData |-> << 137, 80 >>],
                     [guidReference |-> 178, FileData |-> << 71 >>] }

\* FileDataReference.StringData, the GUID it was written from, the extension
\* and the guidIndex of the oid
FileData3Samples ==
    { [FileDataReference |-> << "<", "i", "f", "n", "d", "f", ">", "{", "A", "1", "}" >>, guid |-> 161,
       Extension |-> << ".", "p", "n", "g" >>, guidIndex |-> 7],
      [FileDataReference |-> << "<", "i", "f", "n", "d", "f", ">", "{", "a", "1", "}" >>, guid |-> 161,
       Extension |-> <<>>, guidIndex |-> 7],
      [FileDataReference |-> << "<", "i", "f", "n", "d", "f", ">", "{", "B", "2", "}" >>, guid |-> 178,
       Extension |-> << ".", "p", "n", "g" >>, guidIndex |-> 8],
      [FileDataReference |-> << "<", "i", "f", "n", "d", "f", ">", "{", "B", "2", "}" >>, guid |-> 178,
       Extension |-> << ".", "g", "i", "f" >>, guidIndex |-> 7] }

InitDoc ==
    /\ FcrIdle
    /\ PsIdle
    /\ WalkIdle
    /\ UrlIdle
    /\ MainIdle
    /\ FmtIdle
    /\ docPc = "parsing"
    /\ cur_revision = NoRevision
    /\ gidt = <<>>
    /\ docNodes = <<>>
    /\ docProperties = NoCache
    /\ docLinks = NoCache
    /\ docFiles = NoCache
    /\ docRet = NoCall

\* RevisionManifestStart4FND / 6FND: document.cur_revision = self.data.rid, a
\* new ExtendedGUID object
VisitRevisionManifestStart ==
    /\ docPc = "parsing"
    /\ Len(docNodes) < MaxVisits
    /\ \E rid \in RevisionIds :
         /\ cur_revision' = [rid |-> rid, obj |-> cur_revision.obj + 1]
         /\ docNodes' = Append(docNodes, [kind |-> "RevisionManifestStart6FND",
                                          rid |-> cur_revision'])
    /\ UNCHANGED <<docPc, gidt, docProperties, docLinks, docFiles, docRet>>

\* GlobalIdTableEntryFNDX: table[cur_revision][index] = guid
VisitGlobalIdTableEntry(entries) ==
    /\ docPc = "parsing"
    /\ Len(docNodes) < MaxVisits
    /\ \E e \in entries :
         /\ gidt' = Put(gidt, cur_revision,
                        Put(IF cur_revision \in DOMAIN gidt THEN gidt[cur_revision]
                            ELSE <<>>,
                            e.index, e.guid))
         /\ docNodes' = Append(docNodes, [kind |-> "GlobalIdTableEntryFNDX",
                                          index |-> e.index, guid |-> e.guid])
    /\ UNCHANGED <<docPc, cur_revision, docProperties, docLinks, docFiles, docRet>>

\* ObjectDeclaration2RefCountFND: the body with its oid and jcid, and the
\* property set when the jcid says IsPropertySet
VisitObjectDeclaration2RefCount(decls, indexes) ==
    /\ docPc = "parsing"
    /\ Len(docNodes) < MaxVisits
    /\ \E d \in decls, i \in indexes :
         docNodes' = Append(docNodes,
            [kind |-> "ObjectDeclaration2RefCountFND",
             oid |-> CompactID(1, i),
             jcid |-> [IsPropertySet |-> d.IsPropertySet, name |-> "jcidRichTextOENode"],
             propertySet |->
               [WzHyperlinkUrl |-> d.propertySet.WzHyperlinkUrl,
                RichEditTextUnicode |-> d.propertySet.RichEditTextUnicode,
                ObjectIDs |-> [ k \in 1 .. Len(d.propertySet.ObjectIDs) |->
                                  CompactID(2, d.propertySet.ObjectIDs[k]) ]]])
    /\ UNCHANGED <<docPc, cur_revision, gidt, docProperties, docLinks, docFiles, docRet>>

\* FileDataStoreObjectReferenceFND: guidReference and the FileData of the object
VisitFileDataStoreObjectReference ==
    /\ docPc = "parsing"
    /\ Len(docNodes) < MaxVisits
    /\ \E f \in FileDataSamples :
         docNodes' = Append(docNodes, [kind |-> "FileDataStoreObjectReferenceFND",
                                       guidReference |-> f.guidReference,
                                       FileData |-> f.FileData])
    /\ UNCHANGED <<docPc, cur_revision, gidt, docProperties, docLinks, docFiles, docRet>>

\* ObjectDeclarationFileData3RefCountFND: oid, FileDataReference, Extension
VisitObjectDeclarationFileData3RefCount ==
    /\ docPc = "parsing"
    /\ Len(docNodes) < MaxVisits
    /\ \E f \in FileData3Samples :
         docNodes' = Append(docNodes,
            [kind |-> "ObjectDeclarationFileData3RefCountFND",
             oid |-> CompactID(1, f.guidIndex),
             FileDataReference |-> f.FileDataReference,
             guid |-> f.guid,
             Extension |-> f.Extension])
    /\ UNCHANGED <<docPc, cur_revision, gidt, docProperties, docLinks, docFiles, docRet>>

\* OneDocument.__init__ returns
DocConstructed ==
    /\ docPc = "parsing"
    /\ docPc' = "parsed"
    /\ UNCHANGED <<cur_revision, gidt, docNodes, docProperties, docLinks, docFiles, docRet>>

Ended(err) == IF err = "" THEN "parsed" ELSE "raised"

GetProperties ==
    /\ docPc = "parsed"
    /\ LET r == get_properties(docProperties)
       IN  /\ docProperties' = r.cache
           /\ docPc' = Ended(r.err)
           /\ docRet' = [call |-> "get_properties", include_text_urls |-> TRUE,
                        cached |-> docProperties.val # <<>>, err |-> r.err]
    /\ UNCHANGED <<cur_revision, gidt, docNodes, docLinks, docFiles>>

GetLinks ==
    /\ docPc = "parsed"
    /\ \E include_text_urls \in BOOLEAN :
         LET r == get_links(docLinks, docProperties, include_text_urls)
         IN  /\ docLinks' = r.links
             /\ docProperties' = r.properties
             /\ docPc' = Ended(r.err)
             /\ docRet' = [call |-> "get_links", include_text_urls |-> include_text_urls,
                          cached |-> ~docLinks.isNone,
                          err |-> r.err]
    /\ UNCHANGED <<cur_revision, gidt, docNodes, docFiles>>

GetFiles ==
    /\ docPc = "parsed"
    /\ LET r == get_files(docFiles)
       IN  /\ docFiles' = r.cache
           /\ docPc' = Ended(r.err)
           /\ docRet' = [call |-> "get_files", include_text_urls |-> TRUE,
                        cached |-> DOMAIN docFiles.val # {}, err |-> r.err]
    /\ UNCHANGED <<cur_revision, gidt, docNodes, docProperties, docLinks>>

GetJson ==
    /\ docPc = "parsed"
    /\ LET r == get_json(docFiles, docProperties, docLinks)
       IN  /\ docFiles' = r.files
           /\ docProperties' = r.properties
           /\ docLinks' = r.links
           /\ docPc' = Ended(r.err)
           /\ docRet' = [call |-> "get_json", include_text_urls |-> TRUE,
                        cached |-> DOMAIN docFiles.val # {}, err |-> r.err]
    /\ UNCHANGED <<cur_revision, gidt, docNodes>>

NextDoc ==
    \/ (VisitRevisionManifestStart /\ UNCHANGED <<fcrVars, psVars, wVars, urlVars, mVars, fmtVars>>)
    \/ (VisitGlobalIdTableEntry(EntrySamples) /\ UNCHANGED <<fcrVars, psVars, wVars, urlVars, mVars, fmtVars>>)
    \/ (VisitObjectDeclaration2RefCount(DeclSamples, DeclIndexes)
          /\ UNCHANGED <<fcrVars, psVars, wVars, urlVars, mVars, fmtVars>>)
    \/ (DocConstructed /\ UNCHANGED <<fcrVars, psVars, wVars, urlVars, mVars, fmtVars>>)
    \/ (GetProperties /\ UNCHANGED <<fcrVars, psVars, wVars, urlVars, mVars, fmtVars>>)
    \/ (GetLinks /\ UNCHANGED <<fcrVars, psVars, wVars, urlVars, mVars, fmtVars>>)

SpecDoc == InitDoc /\ [][NextDoc]_vars

NextFiles ==
    \/ (VisitRevisionManifestStart /\ UNCHANGED <<fcrVars, psVars, wVars, urlVars, mVars, fmtVars>>)
    \/ (VisitGlobalIdTableEntry(FilesEntrySamples) /\ UNCHANGED <<fcrVars, psVars, wVars, urlVars, mVars, fmtVars>>)
    \/ (VisitObjectDeclaration2RefCount(FilesDeclSamples, {7})
          /\ UNCHANGED <<fcrVars, psVars, wVars, urlVars, mVars, fmtVars>>)
    \/ (VisitFileDataStoreObjectReference /\ UNCHANGED <<fcrVars, psVars, wVars, urlVars, mVars, fmtVars>>)
    \/ (VisitObjectDeclarationFileData3RefCount /\ UNCHANGED <<fcrVars, psVars, wVars, urlVars, mVars, fmtVars>>)
    \/ (DocConstructed /\ UNCHANGED <<fcrVars, psVars, wVars, urlVars, mVars, fmtVars>>)
    \/ (GetProperties /\ UNCHANGED <<fcrVars, psVars, wVars, urlVars, mVars, fmtVars>>)
    \/ (GetLinks /\ UNCHANGED <<fcrVars, psVars, wVars, urlVars, mVars, fmtVars>>)
    \/ (GetFiles /\ UNCHANGED <<fcrVars, psVars, wVars, urlVars, mVars, fmtVars>>)
    \/ (GetJson /\ UNCHANGED <<fcrVars, psVars, wVars, urlVars, mVars, fmtVars>>)

SpecFiles == InitDoc /\ [][NextFiles]_vars

---------------------------------------------------------------------------
(* The reader: fields decoded from the bytes at an offset of the file.     *)

\* the bits set in a little-endian field
BitsOf(bytes) ==
    { 8 * (p[1] - 1) + p[2] :
        p \in { q \in (1 .. Len(bytes)) \X (0 .. 7) :
                  (bytes[q[1]] \div (2 ^ q[2])) % 2 = 1 } }

\* an offset too far to be held exactly; it lies behind the end of every file
Far == 1073741824

RECURSIVE SumBits(_)
SumBits(bits) ==
    IF bits = {} THEN 0
    ELSE LET b == CHOOSE x \in bits : TRUE
         IN  (2 ^ b) + SumBits(bits \ {b})

\* the value of an unsigned integer as an offset
ValueOf(bits) == IF \A b \in bits : b < 30 THEN SumBits(bits) ELSE Far

\* fh_onenote.seek(offset) of a file opened 'rb' raises for an offset that
\* does not fit a signed 64-bit integer
SeekRaises(bits) == 63 \in bits

\* FileNodeHeader._FileNodeIDs: FileNodeID -> type name
FileNodeIDs ==
    4 :> "ObjectSpaceManifestRootFND" @@
    8 :> "ObjectSpaceManifestListReferenceFND" @@
    12 :> "ObjectSpaceManifestListStartFND" @@
    16 :> "RevisionManifestListReferenceFND" @@
    20 :> "RevisionManifestListStartFND" @@
    27 :> "RevisionManifestStart4FND" @@ 28 :> "RevisionManifestEndFND" @@
    30 :> "RevisionManifestStart6FND" @@ 31 :> "RevisionManifestStart7FND" @@
    33 :> "GlobalIdTableStartFNDX" @@ 34 :> "GlobalIdTableStart2FND" @@
    36 :> "GlobalIdTableEntryFNDX" @@ 37 :> "GlobalIdTableEntry2FNDX" @@
    38 :> "GlobalIdTableEntry3FNDX" @@ 40 :> "GlobalIdTableEndFNDX" @@
    45 :> "ObjectDeclarationWithRefCountFNDX" @@
    46 :> "ObjectDeclarationWithRefCount2FNDX" @@
    65 :> "ObjectRevisionWithRefCountFNDX" @@
    66 :> "ObjectRevisionWithRefCount2FNDX" @@
    89 :> "RootObjectReference2FNDX" @@ 90 :> "RootObjectReference3FND" @@
    92 :> "RevisionRoleDeclarationFND" @@
    93 :> "RevisionRoleAndContextDeclarationFND" @@
    114 :> "ObjectDeclarationFileData3RefCountFND" @@
    115 :> "ObjectDeclarationFileData3LargeRefCountFND" @@
    124 :> "ObjectDataEncryptionKeyV2FNDX" @@
    132 :> "ObjectInfoDependencyOverridesFND" @@
    140 :> "DataSignatureGroupDefinitionFND" @@
    144 :> "FileDataStoreListReferenceFND" @@
    148 :> "FileDataStoreObjectReferenceFND" @@
    164 :> "ObjectDeclaration2RefCountFND" @@
    165 :> "ObjectDeclaration2LargeRefCountFND" @@
    176 :> "ObjectGroupListReferenceFND" @@ 180 :> "ObjectGroupStartFND" @@
    184 :> "ObjectGroupEndFND" @@ 194 :> "HashedChunkDescriptor2FND" @@
    196 :> "ReadOnlyObjectDeclaration2RefCountFND" @@
    197 :> "ReadOnlyObjectDeclaration2LargeRefCountFND" @@
    255 :> "ChunkTerminatorFND"

HexUpper == << "0", "1", "2", "3", "4", "5", "6", "7", "8", "9",
               "A", "B", "C", "D", "E", "F" >>

\* '{:03X}'.format(id)
Hex3(id) == << HexUpper[((id \div 256) % 16) + 1], HexUpper[((id \div 16) % 16) + 1],
               HexUpper[(id % 16) + 1] >>

\* FileNodeHeader.__init__ on the four bytes at pos.  The type name of an id
\* that is not in the table is "UnknownType_0x" followed by hex
FileNodeHeader(buf, pos) ==
    LET b == Slice(buf, pos, 4)
        id == (b[1] + 256 * b[2]) % 1024
    IN  [ file_node_id |-> id,
          unknown |-> id \notin DOMAIN FileNodeIDs,
          file_node_type |-> IF id \in DOMAIN FileNodeIDs THEN FileNodeIDs[id]
                             ELSE "UnknownType_0x",
          hex |-> IF id \in DOMAIN FileNodeIDs THEN <<>> ELSE Hex3(id),
          size |-> (b[2] \div 4) + 64 * (b[3] % 128),
          stpFormat |-> (b[3] \div 128) + 2 * (b[4] % 2),
          cbFormat |-> (b[4] \div 2) % 4,
          baseType |-> (b[4] \div 8) % 16,
          reserved |-> b[4] \div 128 ]

\* the types whose data is one ExtendedGUID
GuidTypes == { "ObjectGroupStartFND", "ObjectSpaceManifestRootFND",
               "ObjectSpaceManifestListStartFND", "DataSignatureGroupDefinitionFND" }

\* the types whose data is a FileNodeChunkReference, and those with an
\* ExtendedGUID after it
RefTypes == { "RevisionManifestListReferenceFND", "FileDataStoreListReferenceFND" }

RefGuidTypes == { "ObjectSpaceManifestListReferenceFND", "ObjectGroupListReferenceFND" }

\* self.data = None
NoDataTypes == { "RevisionManifestEndFND", "ObjectGroupEndFND" }

\* the bytes read for a RevisionManifestStart{4,6,7}FND
StartSize(type) ==
    CASE type = "RevisionManifestStart4FND" -> 54
      [] type = "RevisionManifestStart6FND" -> 46
      [] type = "RevisionManifestStart7FND" -> 66

\* the branches of FileNode.__init__ that are not modelled: a file with such
\* a node is outside the model
OtherHandledTypes ==
    { "RevisionManifestListStartFND", "ReadOnlyObjectDeclaration2LargeRefCountFND",
      "ReadOnlyObjectDeclaration2RefCountFND", "ObjectDeclaration2Body",
      "ObjectInfoDependencyOverridesFND", "RootObjectReference2FNDX",
      "RootObjectReference3FND", "ObjectDeclarationFileData3RefCountFND",
      "RevisionRoleDeclarationFND", "RevisionRoleAndContextDeclarationFND" }

\* what the branch of a type leaves: data is "obj", "None" or "unset" (the
\* else branch sets no data attribute); effect names what is done besides
NoData(pos) ==
    [ ok |-> TRUE, err |-> "", pos |-> pos, data |-> "unset", hasRef |-> FALSE,
      ref |-> NoFcr, effect |-> "none", rid |-> <<>>, index |-> 0, guid |-> <<>>,
      guidReference |-> <<>> ]

DataError(pos, e) == [ NoData(pos) EXCEPT !.ok = FALSE, !.err = e ]

\* FileNodeChunkReference(fh_onenote, stpFormat, cbFormat) at pos
ReadRef(buf, pos, header) ==
    FileNodeChunkReference(header.stpFormat, header.cbFormat,
        BitsOf(Slice(buf, pos, StpWidth(header.stpFormat) \div 8)),
        BitsOf(Slice(buf, pos + StpWidth(header.stpFormat) \div 8,
                     CbWidth(header.cbFormat) \div 8)))

\* FileDataStoreObject.__init__ at ref.stp: the 36 bytes of the header, the
\* FileData of cbLength bytes, the footer at stp + cb - 16
FileDataStoreObject(buf, ref) ==
    LET stp == ValueOf(ref.stp)
        cbLength == ValueOf(BitsOf(Slice(buf, stp + 16, 8)))
        footer == stp + ValueOf(ref.cb) - 16
    IN  IF SeekRaises(ref.stp) THEN "ValueError"
        ELSE IF ~CanRead(buf, stp, 36) THEN "struct.error"
        ELSE IF cbLength = Far THEN "MemoryError"
        ELSE IF ~CanRead(buf, stp + 36, cbLength) THEN "struct.error"
        ELSE IF footer < 0 THEN "OSError"
        ELSE IF ~CanRead(buf, footer, 16) THEN "struct.error"
        ELSE ""

\* a plausible slip: the gctxid of a RevisionManifestStart7FND for its base.rid
StartRidGctxid(buf, pos, type) ==
    IF type = "RevisionManifestStart7FND" THEN Slice(buf, pos + 46, 20)
    ELSE Slice(buf, pos, 20)

\* what document.cur_revision is set to: self.data.rid of a
\* RevisionManifestStart4FND or 6FND, self.data.base.rid of a 7FND, each the
\* ExtendedGUID read first
StartRid(buf, pos, type) == Slice(buf, pos, 20)

\* the dispatch of FileNode.__init__ on file_node_type, from the offset pos
\* behind the header up to the baseType test
FileNodeData(buf, pos, header) ==
    LET type == header.file_node_type
        n == FcrDataSize(header.stpFormat, header.cbFormat)
        ref == ReadRef(buf, pos, header)
        got == [ NoData(pos) EXCEPT !.data = "obj" ]
    IN  CASE header.unknown -> NoData(pos)
          [] ~header.unknown /\ type \in NoDataTypes ->
               [ NoData(pos) EXCEPT !.data = "None" ]
          [] ~header.unknown /\ type \in GuidTypes ->
               IF ~CanRead(buf, pos, 20) THEN DataError(pos, "struct.error")
               ELSE [ got EXCEPT !.pos = pos + 20 ]
          [] ~header.unknown /\ type \in RefTypes ->
               IF ~CanRead(buf, pos, n) THEN DataError(pos, "struct.error")
               ELSE [ got EXCEPT !.pos = pos + n, !.hasRef = TRUE, !.ref = ref ]
          [] ~header.unknown /\ type \in RefGuidTypes ->
               IF ~CanRead(buf, pos, n + 20) THEN DataError(pos, "struct.error")
               ELSE [ got EXCEPT !.pos = pos + n + 20, !.hasRef = TRUE, !.ref = ref ]
          [] ~header.unknown /\ type \in { "RevisionManifestStart4FND",
                                          "RevisionManifestStart6FND",
                                          "RevisionManifestStart7FND" } ->
               IF ~CanRead(buf, pos, StartSize(type)) THEN DataError(pos, "struct.error")
               ELSE [ got EXCEPT !.pos = pos + StartSize(type), !.effect = "revision",
                                 !.rid = StartRid(buf, pos, type) ]
          [] ~header.unknown /\ type = "GlobalIdTableEntryFNDX" ->
               IF ~CanRead(buf, pos, 20) THEN DataError(pos, "struct.error")
               ELSE [ got EXCEPT !.pos = pos + 20, !.effect = "entry",
                                 !.index = U32(Slice(buf, pos, 4)),
                                 !.guid = Slice(buf, pos + 4, 16) ]
          [] ~header.unknown /\ type = "ObjectDeclaration2RefCountFND" ->
               IF ~CanRead(buf, pos, n + 10) THEN DataError(pos, "struct.error")
               ELSE [ got EXCEPT !.pos = pos + n + 10, !.hasRef = TRUE, !.ref = ref,
                        !.effect = IF (buf[pos + n + 7] \div 2) % 2 = 1
                                   THEN "propertySet" ELSE "none" ]
          [] ~header.unknown /\ type = "FileDataStoreObjectReferenceFND" ->
               IF ~CanRead(buf, pos, n + 16) THEN DataError(pos, "struct.error")
               ELSE LET e == FileDataStoreObject(buf, ref)
                    IN  IF e # "" THEN [ DataError(pos, e) EXCEPT !.ref = ref,
                                                                   !.effect = "fileData" ]
                        ELSE [ got EXCEPT !.pos = pos + n + 16, !.hasRef = TRUE,
                                          !.ref = ref, !.effect = "fileData",
                                          !.guidReference = Slice(buf, pos + n, 16) ]
          [] OTHER -> NoData(pos)

---------------------------------------------------------------------------
(* Spec: FileNodeList.__init__ on the root reference of the header, with   *)
(* the FileNodeListFragments, the FileNodes and, through nodes of baseType *)
(* 2, the child lists.  A frame of wStack is one FileNodeList: its kind,   *)
(* file_chunk_reference, the end and the header of the fragment being read *)
(* and the number of its nodes, the headers of the fragments appended, and *)
(* for the list one level up the node that waits for it with its           *)
(* current_offset.                                                         *)

NoHeader == [ uintMagic |-> <<>>, FileNodeListID |-> <<>>, nFragmentSequence |-> <<>> ]

Frame(kind, ref) ==
    [ kind |-> kind, ref |-> ref, end |-> 0, header |-> NoHeader, nodes |-> 0,
      fragments |-> <<>>, pend |-> NoNode, pendRef |-> [hasRef |-> FALSE, ref |-> NoFcr],
      offset |-> 0 ]

Top == wStack[Len(wStack)]

SetTop(stack, frame) == [ stack EXCEPT ![Len(stack)] = frame ]

\* the walk is followed until it has decoded this many fragments
MaxDecoded == 5

\* what a step leaves of the reader and the lists
Raised(e) == [ pc |-> "raised", err |-> e, pos |-> wPos, stack |-> wStack, last |-> wLast ]

\* a plausible slip: 'and' for 'or' in the test that ends the loop
NodeDoneAnd(stack, node, pos) ==
    [ pc |-> IF node.file_node_id = 255 /\ node.file_node_id = 0 THEN "trailer"
             ELSE "nodes",
      err |-> "",
      pos |-> pos,
      stack |-> SetTop(stack, [ stack[Len(stack)] EXCEPT !.nodes = @ + 1 ]),
      last |-> [ node EXCEPT !.after = pos ] ]

\* FileNode.__init__ returns to the loop of its fragment: the node is appended,
\* and a node id of 255 or 0 ends the loop
NodeDone(stack, node, pos) ==
    [ pc |-> IF node.file_node_id = 255 \/ node.file_node_id = 0 THEN "trailer"
             ELSE "nodes",
      err |-> "",
      pos |-> pos,
      stack |-> SetTop(stack, [ stack[Len(stack)] EXCEPT !.nodes = @ + 1 ]),
      last |-> [ node EXCEPT !.after = pos ] ]

\* the end of FileNode.__init__ from current_offset = tell(): a node of
\* baseType 2 gets FileNodeList(.., self.data.ref, ..) as its child
AfterData(node, pendRef, pos) ==
    IF node.baseType = 2
    THEN IF ~pendRef.hasRef THEN Raised("AttributeError")
         ELSE [ pc |-> "list", err |-> "", pos |-> pos,
                stack |-> Append(SetTop(wStack, [ Top EXCEPT !.pend = node,
                                                             !.pendRef = pendRef,
                                                             !.offset = pos ]),
                                 Frame("child", pendRef.ref)),
                last |-> wLast ]
    ELSE NodeDone(wStack, node, pos)

Leave(o) ==
    /\ wPc' = o.pc
    /\ wErr' = o.err
    /\ wPos' = o.pos
    /\ wStack' = o.stack
    /\ wLast' = o.last
    /\ wDecoded' = IF wPc = "fragment" /\ o.pc = "nodes" THEN Append(wDecoded, wPos)
                   ELSE wDecoded
    /\ UNCHANGED wFile

\* FileNodeList.__init__: fh_onenote.seek(file_chunk_reference.stp)
FileNodeListInit ==
    /\ wPc = "list"
    /\ wSeek' = [ kind |-> Top.kind, nil |-> isFcrNil(Top.ref) ]
    /\ IF SeekRaises(Top.ref.stp) THEN Leave(Raised("ValueError"))
       ELSE Leave([ pc |-> "fragment", err |-> "", pos |-> ValueOf(Top.ref.stp),
                    stack |-> wStack, last |-> wLast ])
    /\ UNCHANGED <<psVars, docVars, urlVars, mVars, fmtVars>>

\* FileNodeListFragment.__init__ up to its loop: the FileNodeListHeader
FileNodeListFragmentInit ==
    /\ wPc = "fragment"
    /\ Len(wDecoded) < MaxDecoded
    /\ IF ~CanRead(wFile, wPos, 16) THEN Leave(Raised("struct.error"))
       ELSE Leave([ pc |-> "nodes", err |-> "", pos |-> wPos + 16,
                    stack |-> SetTop(wStack,
                       [ Top EXCEPT !.end = ValueOf(Top.ref.stp) + ValueOf(Top.ref.cb),
                                    !.nodes = 0,
                                    !.header = [ uintMagic |-> Slice(wFile, wPos, 8),
                                                 FileNodeListID |-> Slice(wFile, wPos + 8, 4),
                                                 nFragmentSequence |->
                                                    Slice(wFile, wPos + 12, 4) ] ]),
                    last |-> wLast ])
    /\ UNCHANGED <<wSeek, psVars, docVars, urlVars, mVars, fmtVars>>

\* one pass of the loop 'while fh_onenote.tell() + 24 < end': FileNode.__init__
\* up to the decoding of a property set, the construction of a child list, or
\* its return
FileNodeInit ==
    /\ wPc = "nodes"
    /\ wPos + 24 < Top.end
    /\ IF ~CanRead(wFile, wPos, 4)
       THEN Leave(Raised("struct.error")) /\ UNCHANGED <<wSeek, psVars, docVars, urlVars, mVars, fmtVars>>
       ELSE LET header == FileNodeHeader(wFile, wPos)
                d == FileNodeData(wFile, wPos + 4, header)
                node == [ start |-> wPos, file_node_id |-> header.file_node_id,
                          unknown |-> header.unknown, hex |-> header.hex,
                          size |-> header.size, baseType |-> header.baseType,
                          after |-> 0, uintMagic |-> Top.header.uintMagic ]
                pendRef == [ hasRef |-> d.hasRef, ref |-> d.ref ]
            IN  /\ header.file_node_type \notin OtherHandledTypes
                /\ wSeek' = IF d.effect \in {"propertySet", "fileData"}
                            THEN [ kind |-> d.effect, nil |-> isFcrNil(d.ref) ]
                            ELSE wSeek
                /\ cur_revision' = IF d.ok /\ d.effect = "revision"
                                   THEN [ rid |-> d.rid, obj |-> cur_revision.obj + 1 ]
                                   ELSE cur_revision
                /\ gidt' = IF d.ok /\ d.effect = "entry"
                           THEN Put(gidt, cur_revision,
                                    Put(IF cur_revision \in DOMAIN gidt
                                        THEN gidt[cur_revision] ELSE <<>>,
                                        d.index, d.guid))
                           ELSE gidt
                /\ UNCHANGED <<docPc, docNodes, docProperties, docLinks, docFiles, docRet,
                               urlVars, mVars, fmtVars>>
                /\ IF ~d.ok THEN Leave(Raised(d.err)) /\ UNCHANGED psVars
                   ELSE IF d.effect = "propertySet"
                   THEN IF SeekRaises(d.ref.stp)
                        THEN Leave(Raised("ValueError")) /\ UNCHANGED psVars
                        ELSE /\ Leave([ pc |-> "propertySet", err |-> "",
                                        pos |-> ValueOf(d.ref.stp),
                                        stack |-> SetTop(wStack,
                                                    [ Top EXCEPT !.pend = node,
                                                                 !.pendRef = pendRef,
                                                                 !.offset = d.pos ]),
                                        last |-> wLast ])
                             /\ psBuf' = wFile
                             /\ psPos' = ValueOf(d.ref.stp)
                             /\ psPc' = "streams"
                             /\ psErr' = ""
                             /\ psStreams' = [ OIDs |-> NoStream, OSIDs |-> NoStream,
                                               ContextIDs |-> NoStream ]
                             /\ psStack' = <<>>
                             /\ psResult' = NoSet
                   ELSE Leave(AfterData(node, pendRef, d.pos)) /\ UNCHANGED psVars

\* ObjectSpaceObjectPropSet.__init__ has returned or raised:
\* fh_onenote.seek(current_offset), then the end of FileNode.__init__
PropertySetDone ==
    /\ wPc = "propertySet"
    /\ psPc \in {"done", "error"}
    /\ IF psPc = "error" THEN Leave(Raised(psErr))
       ELSE Leave(AfterData(Top.pend, Top.pendRef, Top.offset))
    /\ UNCHANGED <<wSeek, psVars, docVars, urlVars, mVars, fmtVars>>

\* a plausible slip: file_chunk_reference = fragment.nextFragment left out, so
\* that section_end stays that of the first fragment
FileNodeListFragmentEndSameRef ==
    /\ \/ wPc = "trailer"
       \/ wPc = "nodes" /\ ~(wPos + 24 < Top.end)
    /\ LET at == Top.end - 20
           nextFragment == FileChunkReference64x32(BitsOf(Slice(wFile, at, 8)),
                                                   BitsOf(Slice(wFile, at + 8, 4)))
           appended == [ Top EXCEPT !.fragments = Append(@, Top.header) ]
       IN  IF at < 0
           THEN Leave(Raised("OSError")) /\ UNCHANGED wSeek
           ELSE IF ~CanRead(wFile, at, 20)
           THEN Leave(Raised("struct.error")) /\ UNCHANGED wSeek
           ELSE IF isFcrNil(nextFragment)
           THEN /\ Leave([ pc |-> "listEnd", err |-> "", pos |-> at + 20,
                           stack |-> SetTop(wStack, appended), last |-> wLast ])
                /\ UNCHANGED wSeek
           ELSE /\ wSeek' = [ kind |-> "nextFragment", nil |-> FALSE ]
                /\ IF SeekRaises(nextFragment.stp)
                   THEN Leave([ Raised("ValueError") EXCEPT
                                  !.stack = SetTop(wStack, appended) ])
                   ELSE Leave([ pc |-> "fragment", err |-> "",
                                pos |-> ValueOf(nextFragment.stp),
                                stack |-> SetTop(wStack, appended),
                                last |-> wLast ])
    /\ UNCHANGED <<psVars, docVars, urlVars, mVars, fmtVars>>

\* the end of FileNodeListFragment.__init__: seek(end - 20), nextFragment and
\* footer; then the loop of FileNodeList.__init__ appends the fragment and
\* either stops at a nil nextFragment or seeks to the next fragment
FileNodeListFragmentEnd ==
    /\ \/ wPc = "trailer"
       \/ wPc = "nodes" /\ ~(wPos + 24 < Top.end)
    /\ LET at == Top.end - 20
           nextFragment == FileChunkReference64x32(BitsOf(Slice(wFile, at, 8)),
                                                   BitsOf(Slice(wFile, at + 8, 4)))
           appended == [ Top EXCEPT !.fragments = Append(@, Top.header) ]
       IN  IF at < 0
           THEN Leave(Raised("OSError")) /\ UNCHANGED wSeek
           ELSE IF ~CanRead(wFile, at, 20)
           THEN Leave(Raised("struct.error")) /\ UNCHANGED wSeek
           ELSE IF isFcrNil(nextFragment)
           THEN /\ Leave([ pc |-> "listEnd", err |-> "", pos |-> at + 20,
                           stack |-> SetTop(wStack, appended), last |-> wLast ])
                /\ UNCHANGED wSeek
           ELSE /\ wSeek' = [ kind |-> "nextFragment", nil |-> FALSE ]
                /\ IF SeekRaises(nextFragment.stp)
                   THEN Leave([ Raised("ValueError") EXCEPT
                                  !.stack = SetTop(wStack, appended) ])
                   ELSE Leave([ pc |-> "fragment", err |-> "",
                                pos |-> ValueOf(nextFragment.stp),
                                stack |-> SetTop(wStack,
                                            [ appended EXCEPT !.ref = nextFragment ]),
                                last |-> wLast ])
    /\ UNCHANGED <<psVars, docVars, urlVars, mVars, fmtVars>>

\* a plausible slip: fh_onenote.seek(current_offset) left out behind the child
FileNodeListDoneNoSeek ==
    /\ wPc = "listEnd"
    /\ IF Len(wStack) = 1
       THEN Leave([ pc |-> "done", err |-> "", pos |-> wPos, stack |-> wStack,
                    last |-> wLast ])
       ELSE LET rest == SubSeq(wStack, 1, Len(wStack) - 1)
                parent == rest[Len(rest)]
            IN  Leave(NodeDone(rest, parent.pend, wPos))
    /\ UNCHANGED <<wSeek, psVars, docVars, urlVars, mVars, fmtVars>>

\* FileNodeList.__init__ returns: the root list is complete, or the child is
\* appended to the children of the waiting node, which seeks back to its
\* current_offset and returns
FileNodeListDone ==
    /\ wPc = "listEnd"
    /\ IF Len(wStack) = 1
       THEN Leave([ pc |-> "done", err |-> "", pos |-> wPos, stack |-> wStack,
                    last |-> wLast ])
       ELSE LET rest == SubSeq(wStack, 1, Len(wStack) - 1)
                parent == rest[Len(rest)]
            IN  Leave(NodeDone(rest, parent.pend, parent.offset))
    /\ UNCHANGED <<wSeek, psVars, docVars, urlVars, mVars, fmtVars>>

---------------------------------------------------------------------------
(* The files of Spec.  A file holds, in this order, a child list of one    *)
(* fragment, a property set, a file data store object, a second fragment   *)
(* for the root list, and the first fragment of the root list with a row   *)
(* of up to MaxNodes nodes drawn from NodeSamples.                         *)

MaxNodes == 2

\* uintMagic 0xA4567AB1F5F7F4C4 as the file holds it
Magic == << 196, 244, 247, 245, 177, 122, 86, 164 >>

OtherMagic == << 0, 244, 247, 245, 177, 122, 86, 164 >>

Zeros(n) == [ i \in 1 .. n |-> 0 ]

\* the four bytes of a FileNode header (reserved = 0)
EncHeader(id, size, stpFormat, cbFormat, baseType) ==
    EncU32(id + size * 1024 + stpFormat * 8388608 + cbFormat * 33554432
              + baseType * 134217728)

\* a FileNodeChunkReference of stpFormat 2 and cbFormat 2
EncRef(stp, cb) == EncU16(stp \div 8) \o << cb \div 8 >>

NilRef == << 255, 255, 0 >>

\* a FileChunkReference64x32
EncRef64x32(stp, cb) == EncU32(stp) \o Zeros(4) \o EncU32(cb)

NilRef64x32 == << 255, 255, 255, 255, 255, 255, 255, 255, 0, 0, 0, 0 >>

EncFragment(listId, magic, nodes, pad, next) ==
    magic \o EncU32(listId) \o EncU32(0) \o nodes \o Zeros(pad) \o next \o Zeros(8)

EndNode == EncHeader(28, 4, 0, 0, 0)

Terminator == EncHeader(255, 4, 0, 0, 0)

ChildAt == Len(Zeros(8))

ChildList == EncFragment(5, Magic, EndNode \o Terminator, 4, NilRef64x32)

PropSetAt == ChildAt + Len(ChildList)

PropSetBytes ==
    EncStreams(TRUE, FALSE)
      \o EncSet(<< [ type |-> 17, arg |-> 0,
                     inner |-> << [ type |-> 5, arg |-> 0, inner |-> <<>> ] >> ] >>)
      \o Zeros(4)

StoreAt == PropSetAt + Len(PropSetBytes)

\* guidHeader, cbLength = 2, unused, reserved, FileData, padding, guidFooter
StoreObject ==
    Zeros(16) \o << 2, 0, 0, 0, 0, 0, 0, 0 >> \o Zeros(12) \o << 137, 80 >>
      \o Zeros(2) \o Zeros(16)

SecondAt == StoreAt + Len(StoreObject)

SecondFragment(listId) == EncFragment(listId, Magic, EndNode \o Terminator, 4, NilRef64x32)

RootAt == SecondAt + Len(SecondFragment(1))

\* the body of an ObjectDeclaration2RefCountFND: oid, jcid, flags, cRef
DeclBody(IsPropertySet) ==
    << 1, 7, 0, 0 >> \o << 12, 0, IF IsPropertySet THEN 2 ELSE 0, 0 >> \o << 0, 1 >>

NodeSamples ==
    { EndNode,
      Terminator,
      \* an id that is not in the table, size 8, its body the bytes of a header
      EncHeader(1023, 8, 0, 0, 0) \o Terminator,
      \* the same id in a node of baseType 2
      EncHeader(1023, 7, 2, 2, 2) \o EncRef(ChildAt, Len(ChildList)),
      \* RevisionManifestListReferenceFND, to the child list and nil
      EncHeader(16, 7, 2, 2, 2) \o EncRef(ChildAt, Len(ChildList)),
      EncHeader(16, 7, 2, 2, 2) \o NilRef,
      \* ObjectDeclaration2RefCountFND: a property set, a nil reference, no
      \* property set
      EncHeader(164, 17, 2, 2, 1) \o EncRef(PropSetAt, Len(PropSetBytes)) \o DeclBody(TRUE),
      EncHeader(164, 17, 2, 2, 1) \o NilRef \o DeclBody(TRUE),
      EncHeader(164, 17, 2, 2, 1) \o NilRef \o DeclBody(FALSE),
      \* ObjectDeclaration2LargeRefCountFND with a property set: cRef has 4 bytes
      EncHeader(165, 20, 2, 2, 1) \o EncRef(PropSetAt, Len(PropSetBytes))
         \o DeclBody(TRUE) \o Zeros(3),
      \* FileDataStoreObjectReferenceFND, to the object and nil
      EncHeader(148, 23, 2, 2, 1) \o EncRef(StoreAt, Len(StoreObject)) \o Payload(16),
      EncHeader(148, 23, 2, 2, 1) \o NilRef \o Payload(16),
      \* RevisionManifestStart6FND and GlobalIdTableEntryFNDX
      EncHeader(30, 50, 0, 0, 0) \o Payload(20) \o Zeros(26),
      \* RevisionManifestStart4FND, and RevisionManifestStart7FND with its gctxid
      EncHeader(27, 58, 0, 0, 0) \o [ i \in 1 .. 20 |-> 40 + i ] \o Zeros(34),
      EncHeader(31, 70, 0, 0, 0) \o [ i \in 1 .. 20 |-> 60 + i ] \o Zeros(26)
         \o [ i \in 1 .. 20 |-> 100 + i ],
      EncHeader(36, 24, 0, 0, 0) \o EncU32(7) \o Payload(16) }

Rows == UNION { [ 1 .. n -> NodeSamples ] : n \in 0 .. MaxNodes }

RECURSIVE Concat(_, _)
Concat(row, k) == IF k > Len(row) THEN <<>> ELSE row[k] \o Concat(row, k + 1)

\* the bytes behind the nodes of the first fragment: with 4 the last node ends
\* where tell() + 24 = end, with 8 a node of zero bytes is read behind it
Pads == {4, 8}

\* a file and the fcrFileNodeListRoot of its header
WalkFile(secondId, magic, row, pad, next, root) ==
    LET first == EncFragment(1, magic, Concat(row, 1), pad, next)
    IN  [ file |-> Zeros(8) \o ChildList \o PropSetBytes \o StoreObject
                     \o SecondFragment(secondId) \o first,
          root |-> IF root = "nil" THEN NilRef64x32
                   ELSE EncRef64x32(RootAt, Len(first)) ]

WalkFiles ==
    { WalkFile(1, Magic, row, pad, NilRef64x32, "first") : row \in Rows, pad \in Pads }
      \cup { WalkFile(1, Magic, << EndNode >>, 8, NilRef64x32, "nil") }
      \cup { WalkFile(1, OtherMagic, << EndNode >>, 8, NilRef64x32, "first") }
      \cup { WalkFile(id, Magic, << EndNode >>, 8,
                      EncRef64x32(SecondAt, Len(SecondFragment(id))), "first") :
               id \in {1, 2} }
      \* nextFragment of the first fragment is the first fragment
      \cup { WalkFile(1, Magic, << EndNode >>, 8, EncRef64x32(RootAt, 48), "first") }
      \* the ref of a RevisionManifestListReferenceFND of the root list is the
      \* root list
      \cup { WalkFile(1, Magic, << EncHeader(16, 7, 2, 2, 2) \o EncRef(RootAt, 48) >>, 5,
                      NilRef64x32, "first") }

Init ==
    /\ FcrIdle
    /\ PsIdle
    /\ DocIdle
    /\ UrlIdle
    /\ MainIdle
    /\ FmtIdle
    /\ \E f \in WalkFiles :
         /\ wFile = f.file
         /\ wStack = << Frame("root",
                              FileChunkReference64x32(BitsOf(SubSeq(f.root, 1, 8)),
                                                      BitsOf(SubSeq(f.root, 9, 12)))) >>
    /\ wPos = 0
    /\ wPc = "list"
    /\ wErr = ""
    /\ wLast = NoNode
    /\ wSeek = NoSeek
    /\ wDecoded = <<>>

Next ==
    \/ (FileNodeListInit /\ UNCHANGED fcrVars)
    \/ (FileNodeListFragmentInit /\ UNCHANGED fcrVars)
    \/ (FileNodeInit /\ UNCHANGED fcrVars)
    \/ (PropertySetDone /\ UNCHANGED fcrVars)
    \/ (FileNodeListFragmentEnd /\ UNCHANGED fcrVars)
    \/ (FileNodeListDone /\ UNCHANGED fcrVars)
    \/ (wPc = "propertySet" /\ PsStreams /\ UNCHANGED <<fcrVars, docVars, wVars, urlVars, mVars, fmtVars>>)
    \/ (wPc = "propertySet" /\ PsBody /\ UNCHANGED <<fcrVars, docVars, wVars, urlVars, mVars, fmtVars>>)
    \/ (wPc = "propertySet" /\ PsValue /\ UNCHANGED <<fcrVars, docVars, wVars, urlVars, mVars, fmtVars>>)
    \/ (wPc = "propertySet" /\ PsNestedSet /\ UNCHANGED <<fcrVars, docVars, wVars, urlVars, mVars, fmtVars>>)
    \/ (wPc = "propertySet" /\ PsEndSet /\ UNCHANGED <<fcrVars, docVars, wVars, urlVars, mVars, fmtVars>>)

Spec == Init /\ [][Next]_vars

---------------------------------------------------------------------------
(* SpecUrl: _extract_urls_from_text applied to a text, then to each URL it *)
(* returned.  The texts are the concatenations of a few pieces.            *)

\* the longest text, counted in pieces
MaxPieces == 3

UrlPieces ==
    { << "h", "t", "t", "p", ":", "/", "/" >>,
      << "M", "a", "i", "l", "t", "o", ":" >>,
      << "a" >>, << "." >>, << ":" >>, << " " >>, << "<" >>, << ")" >> }

RECURSIVE UrlTexts(_)
UrlTexts(n) ==
    IF n = 0 THEN { <<>> }
    ELSE UrlTexts(n - 1)
         \cup { t \o piece : t \in UrlTexts(n - 1), piece \in UrlPieces }

InitUrl ==
    /\ FcrIdle
    /\ PsIdle
    /\ DocIdle
    /\ WalkIdle
    /\ MainIdle
    /\ FmtIdle
    /\ urlText \in UrlTexts(MaxPieces)
    /\ urlPc = "text"
    /\ urlOut = <<>>
    /\ urlAgain = <<>>

\* urls = OneDocument._extract_urls_from_text(text)
UrlExtract ==
    /\ urlPc = "text"
    /\ urlOut' = extract_urls_from_text(urlText)
    /\ urlPc' = "extracted"
    /\ UNCHANGED <<urlText, urlAgain>>

\* [OneDocument._extract_urls_from_text(url) for url in urls]
UrlReapply ==
    /\ urlPc = "extracted"
    /\ urlAgain' = [ k \in 1 .. Len(urlOut) |-> extract_urls_from_text(urlOut[k]) ]
    /\ urlPc' = "reapplied"
    /\ UNCHANGED <<urlText, urlOut>>

NextUrl ==
    \/ (UrlExtract /\ UNCHANGED <<fcrVars, psVars, docVars, wVars, mVars, fmtVars>>)
    \/ (UrlReapply /\ UNCHANGED <<fcrVars, psVars, docVars, wVars, mVars, fmtVars>>)

SpecUrl == InitUrl /\ [][NextUrl]_vars

---------------------------------------------------------------------------
(* SpecMain: process_onenote_file on the bytes of a file, up to the        *)
(* construction of the document.                                           *)

\* the two byte strings of check_valid: the GUIDs of .one and .onetoc2 in
\* little-endian form
ONE_SIGNATURE ==
    << 228, 82, 92, 123, 140, 216, 167, 77, 174, 177, 83, 120, 208, 41, 150, 211 >>

ONETOC2_SIGNATURE ==
    << 161, 47, 255, 67, 217, 239, 118, 76, 158, 226, 16, 234, 87, 34, 118, 95 >>

\* Header.ONE_UUID and Header.ONETOC2_UUID, the bytes of the GUID as written
ONE_UUID ==
    << 123, 92, 82, 228, 216, 140, 77, 167, 174, 177, 83, 120, 208, 41, 150, 211 >>

ONETOC2_UUID ==
    << 67, 255, 47, 161, 239, 217, 76, 118, 158, 226, 16, 234, 87, 34, 118, 95 >>

\* fh.read(n) at pos: the bytes that are there, fewer than n at the end
ReadUpTo(buf, pos, n) ==
    SubSeq(buf, pos + 1, IF pos + n <= Len(buf) THEN pos + n ELSE Len(buf))

\* check_valid: the first 16 bytes are one of the two signatures
check_valid(buf) == ReadUpTo(buf, 0, 16) \in {ONE_SIGNATURE, ONETOC2_SIGNATURE}

\* uuid.UUID(bytes_le=b): the first three fields are stored least significant
\* byte first
UuidBytesLe(b) ==
    << b[4], b[3], b[2], b[1], b[6], b[5], b[8], b[7] >> \o SubSeq(b, 9, 16)

\* the parameters of Header.__init__ after self
HeaderParams == {"file"}

\* the keyword arguments of the call Header(fh_onenote, debug=debug)
HeaderKeywords == {"debug"}

\* the files: a signature, a signature with one byte changed or cut short,
\* followed by nothing or by the rest of a header
MainHeads ==
    {ONE_SIGNATURE, ONETOC2_SIGNATURE}
    \cup { [sig EXCEPT ![k] = (@ + 1) % 256] :
             sig \in {ONE_SIGNATURE, ONETOC2_SIGNATURE}, k \in 1 .. 16 }
    \cup { SubSeq(ONE_SIGNATURE, 1, n) : n \in 0 .. 15 }

MainFiles == { head \o [ i \in 1 .. n |-> 0 ] : head \in MainHeads, n \in {0, 1008} }

InitMain ==
    /\ FcrIdle
    /\ PsIdle
    /\ DocIdle
    /\ WalkIdle
    /\ UrlIdle
    /\ FmtIdle
    /\ mFile \in MainFiles
    /\ mJson \in {"False", "True", "out.json"}
    /\ mPos = 0
    /\ mPc = "start"
    /\ mErr = ""
    /\ mHeader = NoDocHeader

\* process_onenote_file up to fh_onenote.seek(0): exit() unless check_valid
ProcessCheckValid ==
    /\ mPc = "start"
    /\ IF check_valid(mFile)
       THEN /\ mPos' = 0
            /\ mPc' = "accepted"
            /\ mErr' = ""
       ELSE /\ mPos' = Len(ReadUpTo(mFile, 0, 16))
            /\ mPc' = "ended"
            /\ mErr' = "SystemExit"
    /\ UNCHANGED <<mFile, mJson, mHeader>>

\* OneDocument(fh_onenote, debug=debug_mode) up to self.header: the call of
\* Header with a keyword it does not take raises TypeError before a byte is
\* read; Header.__init__ unpacks 1024 bytes and converts guidFileType
OneDocumentInit ==
    /\ mPc = "accepted"
    /\ IF ~(HeaderKeywords \subseteq HeaderParams)
       THEN /\ mErr' = "TypeError"
            /\ mPc' = "ended"
            /\ UNCHANGED <<mPos, mHeader>>
       ELSE IF Len(ReadUpTo(mFile, mPos, 1024)) # 1024
       THEN /\ mErr' = "struct.error"
            /\ mPc' = "ended"
            /\ mPos' = mPos + Len(ReadUpTo(mFile, mPos, 1024))
            /\ UNCHANGED mHeader
       ELSE /\ mHeader' = [guidFileType |-> UuidBytesLe(ReadUpTo(mFile, mPos, 16))]
            /\ mPos' = mPos + 1024
            /\ mPc' = "header"
            /\ mErr' = ""
    /\ UNCHANGED <<mFile, mJson>>

NextMain ==
    \/ (ProcessCheckValid /\ UNCHANGED <<fcrVars, psVars, docVars, wVars, urlVars, fmtVars>>)
    \/ (OneDocumentInit /\ UNCHANGED <<fcrVars, psVars, docVars, wVars, urlVars, fmtVars>>)

SpecMain == InitMain /\ [][NextMain]_vars

---------------------------------------------------------------------------
(* SpecFmt: PropertySet.get_properties.  A prop set is decoded from bytes  *)
(* as in SpecPs, with PropertyIDs of the name table, then formatted.       *)

MaxFmtProps == 2

\* the rows of PropertyID._property_id_name_mapping the sampled PropertyIDs
\* can hit: the four bytes of the key as struct '<I' reads them, the name
PropertyIdNameMapping ==
    { << << 137, 52, 0, 4 >>, << "N", "o", "t", "e", "T", "a", "g", "S", "t", "a", "t", "e", "s" >> >>,
      << << 0, 28, 0, 8 >>,
         << "L", "a", "y", "o", "u", "t", "T", "i", "g", "h", "t", "L", "a", "y", "o", "u", "t" >> >>,
      << << 4, 28, 0, 8 >>, << "B", "o", "l", "d" >> >>,
      << << 135, 28, 0, 8 >>, << "I", "s", "T", "i", "t", "l", "e", "T", "i", "m", "e" >> >>,
      << << 254, 28, 0, 16 >>,
         << "R", "i", "c", "h", "E", "d", "i", "t", "T", "e", "x", "t", "L", "a", "n", "g", "I", "D" >> >>,
      << << 1, 28, 0, 20 >>, << "P", "a", "g", "e", "W", "i", "d", "t", "h" >> >>,
      << << 12, 28, 0, 20 >>, << "F", "o", "n", "t", "C", "o", "l", "o", "r" >> >>,
      << << 59, 28, 0, 20 >>, << "L", "a", "n", "g", "u", "a", "g", "e", "I", "D" >> >>,
      << << 9, 29, 0, 20 >>,
         << "C", "r", "e", "a", "t", "i", "o", "n", "T", "i", "m", "e", "S", "t", "a", "m", "p" >> >>,
      << << 119, 29, 0, 24 >>,
         << "L", "a", "s", "t", "M", "o", "d", "i", "f", "i", "e", "d",
            "T", "i", "m", "e", "S", "t", "a", "m", "p" >> >>,
      << << 48, 28, 0, 28 >>,
         << "N", "o", "t", "e", "b", "o", "o", "k", "M", "a", "n", "a", "g", "e", "m", "e", "n", "t",
            "E", "n", "t", "i", "t", "y", "G", "u", "i", "d" >> >>,
      << << 32, 30, 0, 28 >>,
         << "W", "z", "H", "y", "p", "e", "r", "l", "i", "n", "k", "U", "r", "l" >> >>,
      << << 38, 28, 0, 36 >>, << "L", "i", "s", "t", "N", "o", "d", "e", "s" >> >> }

Unknown == << "U", "n", "k", "n", "o", "w", "n" >>

\* PropertyID.get_property_name: the mapping looked up with self.value, all
\* 32 bits of it
get_property_name(prid) ==
    LET rows == { r \in PropertyIdNameMapping : r[1] = prid.bytes }
    IN  IF rows = {} THEN Unknown ELSE (CHOOSE r \in rows : TRUE)[2]

\* pat in str
Contains(str, pat) == \E i \in 1 .. Len(str) : StartsWithAt(str, i, pat)

\* a value of the formatted map: what it was made with, and from what
Formatted(how, from) == [ ok |-> TRUE, err |-> "", val |-> [ how |-> how, from |-> from ] ]

FormatFails(e) == [ ok |-> FALSE, err |-> e, val |-> [ how |-> "", from |-> <<>> ] ]

\* the first FILETIME, as '<Q' bytes, that parse_filetime takes beyond
\* datetime.max: 0x24C85A5ED1C03F68
FiletimeLimit == << 104, 63, 192, 209, 94, 90, 200, 36 >>

\* a >= b for two little-endian byte strings of one length
RECURSIVE GeLE(_, _, _)
GeLE(a, b, k) ==
    IF k = 0 THEN TRUE
    ELSE IF a[k] # b[k] THEN a[k] > b[k]
    ELSE GeLE(a, b, k - 1)

\* uuid.UUID(bytes_le=Data).hex: 16 bytes, the first three fields reversed
UuidHexOfBytesLe(Data) ==
    LET order == << 4, 3, 2, 1, 6, 5, 8, 7, 9, 10, 11, 12, 13, 14, 15, 16 >>
    IN  IF Len(Data) # 16 THEN FormatFails("ValueError")
        ELSE Formatted("uuid.hex", [ i \in 1 .. 16 |-> Data[order[i]] ])

\* Data.decode('utf-16'), and Data.hex() when that raises: an odd number of
\* bytes cannot be decoded (the sampled payloads hold no surrogate)
DecodeOrHex(Data) ==
    IF Len(Data) % 2 = 0 THEN Formatted("utf-16", Data) ELSE Formatted("hex", Data)

\* struct.unpack(fmt, x) of size bytes, for what rgData can hold
Unpack(val, size) ==
    IF val.tag # "bytes" THEN "TypeError"
    ELSE IF Len(val.Data) # size THEN "struct.error"
    ELSE ""

\* the branch of the names that contain 'time'
FormatTime(val) ==
    IF val.tag \in {"None", "bool", "set"} THEN FormatFails("TypeError")
    ELSE IF val.tag = "ids"
    THEN FormatFails("TypeError")
    ELSE IF Len(val.Data) = 8
    THEN IF GeLE(val.Data, FiletimeLimit, 8) THEN FormatFails("OverflowError")
         ELSE Formatted("parse_filetime", val.Data)
    ELSE IF Unpack(val, 4) # "" THEN FormatFails(Unpack(val, 4))
    ELSE Formatted("time32_to_datetime", val.Data)

\* half_inch_size_to_pixels(struct.unpack('<f', ..)): int() of an infinity
\* or of a NaN raises
FormatSize(val) ==
    IF Unpack(val, 4) # "" THEN FormatFails(Unpack(val, 4))
    ELSE IF val.Data[4] % 128 = 127 /\ val.Data[3] >= 128
    THEN IF val.Data[3] = 128 /\ val.Data[2] = 0 /\ val.Data[1] = 0
         THEN FormatFails("OverflowError")
         ELSE FormatFails("ValueError")
    ELSE Formatted("half_inch_size_to_pixels", val.Data)

FormatLcid(val, size) ==
    IF Unpack(val, size) # "" THEN FormatFails(Unpack(val, size))
    ELSE Formatted("lcid_to_string", val.Data)

\* str(i) for one element of a list value: None, or a CompactID decoded
\* under the revision of the document
IdStr(item) ==
    IF item.tag = "None" THEN [ ok |-> TRUE, str |-> << "None" >> ]
    ELSE CompactIDStr([ n |-> item.cid.n, guidIndex |-> item.cid.guidIndex,
                        current_revision |-> cur_revision ])

FormatList(ids) ==
    IF \E i \in 1 .. Len(ids) : ~IdStr(ids[i]).ok THEN FormatFails("KeyError")
    ELSE Formatted("list", [ i \in 1 .. Len(ids) |-> IdStr(ids[i]).str ])

True == << "T", "r", "u", "e" >>

False == << "F", "a", "l", "s", "e" >>

\* the value get_properties stores under propertyName, or the exception
FormatValue(propertyName, val) ==
    LET lower == Lower(propertyName)
        has(pat) == Contains(lower, pat)
    IN  IF val.tag = "prt"
        THEN IF has(<< "g", "u", "i", "d" >>) THEN UuidHexOfBytesLe(val.Data)
             ELSE DecodeOrHex(val.Data)
        ELSE IF has(<< "t", "i", "m", "e" >>) THEN FormatTime(val)
        ELSE IF \/ has(<< "h", "e", "i", "g", "h", "t" >>)
                \/ has(<< "w", "i", "d", "t", "h" >>)
                \/ has(<< "o", "f", "f", "s", "e", "t" >>)
                \/ has(<< "m", "a", "r", "g", "i", "n" >>)
        THEN FormatSize(val)
        ELSE IF has(<< "l", "a", "n", "g", "i", "d" >>) THEN FormatLcid(val, 2)
        ELSE IF has(<< "l", "a", "n", "g", "u", "a", "g", "e", "i", "d" >>)
        THEN FormatLcid(val, 4)
        ELSE CASE val.tag = "ids" -> FormatList(val.ids)
               [] val.tag = "bool" -> Formatted("str", IF val.b THEN True ELSE False)
               [] val.tag = "None" -> Formatted("str", << "N", "o", "n", "e" >>)
               [] val.tag = "bytes" -> Formatted("str", val.Data)
               [] OTHER -> Formatted("str", << >>)

\* the loop of PropertySet.get_properties from property i on; the dict is
\* filled in place, so what was stored stays when a later value raises
RECURSIVE FormatProperties(_, _, _)
FormatProperties(set, i, acc) ==
    IF i > set.cProperties THEN [ val |-> acc, err |-> "" ]
    ELSE LET propertyName == get_property_name(set.rgPrids[i])
         IN  IF propertyName = Unknown THEN FormatProperties(set, i + 1, acc)
             ELSE LET r == FormatValue(propertyName, set.rgData[i].val)
                  IN  IF ~r.ok THEN [ val |-> acc, err |-> r.err ]
                      ELSE FormatProperties(set, i + 1, Put(acc, propertyName, r.val))

\* the sampled properties: the low three bytes of a key of the table, the
\* type, and arg as in PsItems
FmtItems ==
    { [ id |-> << 137, 52, 0 >>, type |-> 1, arg |-> 0, inner |-> <<>> ],
      [ id |-> << 4, 28, 0 >>, type |-> 2, arg |-> 0, inner |-> <<>> ],
      [ id |-> << 4, 28, 0 >>, type |-> 2, arg |-> 1, inner |-> <<>> ],
      [ id |-> << 135, 28, 0 >>, type |-> 2, arg |-> 0, inner |-> <<>> ],
      [ id |-> << 135, 28, 0 >>, type |-> 2, arg |-> 1, inner |-> <<>> ],
      [ id |-> << 254, 28, 0 >>, type |-> 4, arg |-> 0, inner |-> <<>> ],
      [ id |-> << 1, 28, 0 >>, type |-> 5, arg |-> 0, inner |-> <<>> ],
      [ id |-> << 12, 28, 0 >>, type |-> 5, arg |-> 0, inner |-> <<>> ],
      [ id |-> << 59, 28, 0 >>, type |-> 5, arg |-> 0, inner |-> <<>> ],
      [ id |-> << 9, 29, 0 >>, type |-> 5, arg |-> 0, inner |-> <<>> ],
      [ id |-> << 119, 29, 0 >>, type |-> 6, arg |-> 0, inner |-> <<>> ],
      [ id |-> << 48, 28, 0 >>, type |-> 7, arg |-> 16, inner |-> <<>> ],
      [ id |-> << 48, 28, 0 >>, type |-> 7, arg |-> 3, inner |-> <<>> ],
      [ id |-> << 32, 30, 0 >>, type |-> 7, arg |-> 2, inner |-> <<>> ],
      [ id |-> << 32, 30, 0 >>, type |-> 7, arg |-> 3, inner |-> <<>> ],
      [ id |-> << 38, 28, 0 >>, type |-> 9, arg |-> 2, inner |-> <<>> ],
      [ id |-> << 0, 0, 0 >>, type |-> 7, arg |-> 0, inner |-> <<>> ],
      [ id |-> << 0, 28, 0 >>, type |-> 17, arg |-> 0,
        inner |-> << [ type |-> 2, arg |-> 0, inner |-> <<>> ] >> ] }

FmtShapes == UNION { [ 1 .. n -> FmtItems ] : n \in 0 .. MaxFmtProps }

\* the PropertyIDs of a shape with the ids of the items
FmtEncPrid(item) ==
    item.id \o << item.type * 4 + (IF item.type = 2 /\ item.arg = 1 THEN 128 ELSE 0) >>

RECURSIVE FmtEncAll(_, _)
FmtEncAll(items, k) ==
    IF k > Len(items) THEN <<>>
    ELSE FmtEncPrid(items[k]) \o FmtEncAll(items, k + 1)

FmtEncSet(items) == EncU16(Len(items)) \o FmtEncAll(items, 1) \o EncVals(items, 1)

\* the Global Identification Table of the document the set belongs to: empty,
\* or with the entries the CompactIDs of the streams refer to
FmtTables == { <<>>, NoRevision :> (7 :> 17 @@ 8 :> 34 @@ 9 :> 17 @@ 10 :> 34) }

InitFmt ==
    /\ FcrIdle
    /\ WalkIdle
    /\ UrlIdle
    /\ MainIdle
    /\ FmtIdle
    /\ docPc = "idle"
    /\ cur_revision = NoRevision
    /\ gidt \in FmtTables
    /\ docNodes = <<>>
    /\ docProperties = NoCache
    /\ docLinks = NoCache
    /\ docFiles = NoCache
    /\ docRet = NoCall
    /\ \E shape \in FmtShapes : psBuf = EncStreams(FALSE, TRUE) \o FmtEncSet(shape)
    /\ psPos = 0
    /\ psPc = "streams"
    /\ psErr = ""
    /\ psStreams = [ OIDs |-> NoStream, OSIDs |-> NoStream, ContextIDs |-> NoStream ]
    /\ psStack = <<>>
    /\ psResult = NoSet

\* PropertySet.get_properties on the body of the decoded prop set
PsGetProperties ==
    /\ psPc = "done"
    /\ IF ~fmtOut.isNone
       THEN /\ fmtPc' = "returned"
            /\ fmtErr' = ""
            /\ UNCHANGED fmtOut
       ELSE LET r == FormatProperties(psResult, 1, <<>>)
            IN  /\ fmtOut' = [ isNone |-> FALSE, val |-> r.val ]
                /\ fmtErr' = r.err
                /\ fmtPc' = IF r.err = "" THEN "returned" ELSE "raised"

NextFmt ==
    \/ (PsStreams /\ UNCHANGED <<fcrVars, docVars, wVars, urlVars, mVars, fmtVars>>)
    \/ (PsBody /\ UNCHANGED <<fcrVars, docVars, wVars, urlVars, mVars, fmtVars>>)
    \/ (PsValue /\ UNCHANGED <<fcrVars, docVars, wVars, urlVars, mVars, fmtVars>>)
    \/ (PsNestedSet /\ UNCHANGED <<fcrVars, docVars, wVars, urlVars, mVars, fmtVars>>)
    \/ (PsEndSet /\ UNCHANGED <<fcrVars, docVars, wVars, urlVars, mVars, fmtVars>>)
    \/ (PsGetProperties /\ UNCHANGED <<fcrVars, psVars, docVars, wVars, urlVars, mVars>>)

SpecFmt == InitFmt /\ [][NextFmt]_vars

---------------------------------------------------------------------------
(* C8: for every shape and every raw field value, isFcrNil() is true       *)
(* exactly when the raw stp field is the all-ones value of its width and   *)
(* cb is 0; the scaling by 8 of the compressed forms changes nothing.      *)
C8_NilIffSentinel ==
    fcrPc = "tested" =>
        (fcrNil <=> (fcrRawStp = Ones(ShapeStpWidth(fcrShape)) /\ fcrRawCb = {}))

\* a compressed reference (2-byte stp scaled by 8) found nil
C8_Witness ==
    /\ fcrPc = "tested"
    /\ fcrNil
    /\ fcrShape.kind = "node"
    /\ fcrShape.stpFormat = 2
    /\ fcrShape.cbFormat = 3

---------------------------------------------------------------------------
(* C2: for every property set that decodes without error, the number of    *)
(* decoded values equals cProperties, the values follow the PropertyIDs    *)
(* and each other without a gap, and the k-th value takes from the byte    *)
(* reader the number of bytes the type table gives for the type of the     *)
(* k-th PropertyID: 0 for 0x1, 0x2, 0x8, 0xA, 0xC; 1, 2, 4, 8 for          *)
(* 0x3..0x6; 4 + cb for 0x7; 4 for 0x9, 0xB, 0xD; the size of the nested   *)
(* set for 0x11.  The types and cb are taken from the bytes of the buffer. *)
C2_TypeAt(set, k) == (psBuf[set.current + 2 + 4 * (k - 1) + 4] \div 4) % 32

RECURSIVE C2_SetSize(_)
RECURSIVE C2_Sum(_, _)
C2_TableSize(set, k) ==
    LET t == C2_TypeAt(set, k)
    IN  CASE t \in {1, 2, 8, 10, 12} -> 0
          [] t = 3 -> 1
          [] t = 4 -> 2
          [] t = 5 -> 4
          [] t = 6 -> 8
          [] t = 7 -> 4 + U32(Slice(psBuf, set.rgData[k].at, 4))
          [] t \in {9, 11, 13} -> 4
          [] t = 17 -> C2_SetSize(set.rgData[k].val.set)
          [] OTHER -> -1

C2_Sum(set, k) ==
    IF k > Len(set.rgData) THEN 0 ELSE C2_TableSize(set, k) + C2_Sum(set, k + 1)

C2_SetSize(set) == 2 + 4 * set.cProperties + C2_Sum(set, 1)

RECURSIVE C2_SetOk(_)
C2_SetOk(set) ==
    /\ Len(set.rgData) = set.cProperties
    /\ \A k \in 1 .. Len(set.rgData) :
         /\ set.rgData[k].to - set.rgData[k].at = C2_TableSize(set, k)
         /\ set.rgData[k].at = IF k = 1 THEN set.current + 2 + 4 * set.cProperties
                               ELSE set.rgData[k - 1].to
         /\ set.rgData[k].val.tag = "set" => C2_SetOk(set.rgData[k].val.set)

C2_ValueCountAndSizes ==
    /\ psPc = "done" => C2_SetOk(psResult)
    /\ \A d \in 1 .. Len(psStack) : \A k \in 1 .. Len(psStack[d].rgData) :
         psStack[d].rgData[k].val.tag = "set" => C2_SetOk(psStack[d].rgData[k].val.set)

\* a decoded set with an 8-byte value and a nested set holding a 4 + cb value
C2_Witness ==
    /\ psPc = "done"
    /\ psResult.cProperties = 2
    /\ psResult.rgPrids[1].type = 6
    /\ psResult.rgPrids[2].type = 17
    /\ psResult.rgData[2].val.set.cProperties = 1
    /\ psResult.rgData[2].val.set.rgPrids[1].type = 7
    /\ psResult.rgData[2].val.set.rgData[1].val.cb = 3

---------------------------------------------------------------------------
(* C1: when a GlobalIdTableEntryFNDX with index i and guid G has been      *)
(* visited while the revision R was current (and no later entry for the    *)
(* same R and i has replaced it), the table maps (R, i) to G, and every    *)
(* CompactID {n, guidIndex = i} decoded after it under R renders as G      *)
(* together with n.  The revision in force at a position is read off the   *)
(* nodes visited before it.                                                *)

C1_IsKind(k, kind) == docNodes[k].kind = kind

C1_RevisionAt(k) ==
    LET starts == { j \in 1 .. (k - 1) : C1_IsKind(j, "RevisionManifestStart6FND") }
    IN  IF starts = {} THEN NoRevision
        ELSE docNodes[CHOOSE j \in starts : \A m \in starts : m <= j].rid

C1_LastEntry(k) ==
    /\ C1_IsKind(k, "GlobalIdTableEntryFNDX")
    /\ \A j \in (k + 1) .. Len(docNodes) :
         ~ /\ C1_IsKind(j, "GlobalIdTableEntryFNDX")
           /\ docNodes[j].index = docNodes[k].index
           /\ C1_RevisionAt(j) = C1_RevisionAt(k)

\* the CompactIDs decoded at position m: the oid and the object references
C1_CompactIDsAt(m) ==
    IF C1_IsKind(m, "ObjectDeclaration2RefCountFND")
    THEN {docNodes[m].oid}
         \cup { docNodes[m].propertySet.ObjectIDs[x] :
                  x \in 1 .. Len(docNodes[m].propertySet.ObjectIDs) }
    ELSE {}

---------------------------------------------------------------------------
(* C4: rendering a CompactID whose (revision, guidIndex) pair is not in    *)
(* the table does not abort: no call of get_properties, get_links or       *)
(* get_files ends with an exception.                                       *)

C4_MissingEntryDoesNotAbort ==
    docRet.call \in {"get_properties", "get_links", "get_files"} => docRet.err = ""

---------------------------------------------------------------------------
(* C10: the list that get_links returns never holds two entries with the   *)
(* same (identity, url) pair.                                              *)

C10_NoDuplicateLinks ==
    \A i, j \in 1 .. Len(docLinks.val) :
       (docLinks.val[i].identity = docLinks.val[j].identity
          /\ docLinks.val[i].url = docLinks.val[j].url) => i = j

\* get_links(True) has returned links, and one property set holds in its
\* WzHyperlinkUrl a URL that is also found in its RichEditTextUnicode
C10_Witness ==
    /\ docPc = "parsed"
    /\ docRet.call = "get_links" /\ docRet.include_text_urls /\ docRet.err = ""
    /\ Len(docLinks.val) >= 2
    /\ \E k \in 1 .. Len(docProperties.val) :
         LET val == docProperties.val[k].val
             urls == extract_urls_from_text(val.RichEditTextUnicode.s)
         IN  /\ val.WzHyperlinkUrl.tag = "str"
             /\ val.RichEditTextUnicode.tag = "str"
             /\ \E x \in 1 .. Len(urls) :
                  urls[x] = Strip(RStrip(val.WzHyperlinkUrl.s, {"NUL"}))

---------------------------------------------------------------------------
(* C9: the keys of the dictionary get_files returns are the GUID strings   *)
(* of the FileDataStoreObjectReferenceFND nodes together with those of the *)
(* ObjectDeclarationFileData3RefCountFND nodes, and the entry of a GUID    *)
(* holds the FileData of the last node of the first kind naming it and the *)
(* extension and identity of the last node of the second kind naming it,   *)
(* whatever the order of the nodes.                                        *)

C9_StoreNodes(key) ==
    { k \in 1 .. Len(docNodes) :
        /\ docNodes[k].kind = "FileDataStoreObjectReferenceFND"
        /\ UuidStr(docNodes[k].guidReference) = key }

C9_Data3Nodes(key) ==
    { k \in 1 .. Len(docNodes) :
        /\ docNodes[k].kind = "ObjectDeclarationFileData3RefCountFND"
        /\ UuidStr(docNodes[k].guid) = key }

C9_Last(positions) == CHOOSE k \in positions : \A j \in positions : j <= k

C9_Keys ==
    { UuidStr(g) : g \in { docNodes[k].guidReference :
         k \in { j \in 1 .. Len(docNodes) :
                   docNodes[j].kind = "FileDataStoreObjectReferenceFND" } } }
    \cup
    { UuidStr(g) : g \in { docNodes[k].guid :
         k \in { j \in 1 .. Len(docNodes) :
                   docNodes[j].kind = "ObjectDeclarationFileData3RefCountFND" } } }

C9_Entry(key) ==
    LET store == C9_StoreNodes(key)
        data3 == C9_Data3Nodes(key)
        oid == docNodes[C9_Last(data3)].oid
    IN  [content |-> IF store = {} THEN [isBytes |-> FALSE, data |-> <<>>]
                     ELSE [isBytes |-> TRUE, data |-> docNodes[C9_Last(store)].FileData],
         extension |-> IF data3 = {} THEN <<>> ELSE docNodes[C9_Last(data3)].Extension,
         identity |-> IF data3 = {} THEN <<>>
                      ELSE << gidt[oid.current_revision][oid.guidIndex], oid.n >>]

C9_FilesAreTheUnion ==
    (docRet.call = "get_files" /\ docRet.err = "") =>
       /\ DOMAIN docFiles.val = C9_Keys
       /\ \A key \in C9_Keys : docFiles.val[key] = C9_Entry(key)

\* get_files has returned; a declaration written '<ifndf>{A1}' was visited
\* before the store node of the GUID a1, and the one entry holds both
C9_Witness ==
    /\ docPc = "parsed"
    /\ docRet.call = "get_files" /\ docRet.include_text_urls /\ docRet.err = ""
    /\ \E a, b \in 1 .. Len(docNodes) :
         /\ a < b
         /\ docNodes[a].kind = "ObjectDeclarationFileData3RefCountFND"
         /\ docNodes[a].FileDataReference[9] = "A"
         /\ docNodes[b].kind = "FileDataStoreObjectReferenceFND"
         /\ docNodes[b].guidReference = docNodes[a].guid
         /\ docNodes[b].FileData # <<>>
    /\ DOMAIN docFiles.val = { << "a", "1" >> }
    /\ docFiles.val[<< "a", "1" >>].content.isBytes
    /\ docFiles.val[<< "a", "1" >>].extension # <<>>
    /\ docFiles.val[<< "a", "1" >>].identity # <<>>

---------------------------------------------------------------------------
(* C3: a FileNode whose id is not in the table is recorded under the name  *)
(* UnknownType_0x followed by the three hexadecimal digits of the id, and  *)
(* when its construction returns the reader stands at the end of the node, *)
(* node start + header.size (for a size that covers at least the header).  *)

C3_UnknownNodeSkipped ==
    (wLast.unknown /\ wLast.size >= 4) =>
       /\ wLast.hex = Hex3(wLast.file_node_id)
       /\ wLast.after = wLast.start + wLast.size

---------------------------------------------------------------------------
(* C5: the parser never seeks to the stp of a reference for which          *)
(* isFcrNil() is true, be it the root reference, the ref of a node of      *)
(* baseType 2, of a declaration flagged IsPropertySet, or of a             *)
(* FileDataStoreObjectReferenceFND.                                        *)

C5_NilNeverDereferenced == ~wSeek.nil

---------------------------------------------------------------------------
(* C6: the fragments appended to one FileNodeList all carry the            *)
(* FileNodeListID of its first fragment.                                   *)

C6_FragmentsShareListId ==
    \A k \in 1 .. Len(wStack) :
       \A i \in 1 .. Len(wStack[k].fragments) :
          wStack[k].fragments[i].FileNodeListID = wStack[k].fragments[1].FileNodeListID

---------------------------------------------------------------------------
(* C7: no FileNode is decoded in a fragment whose header does not hold the *)
(* magic 0xA4567AB1F5F7F4C4.                                               *)

C7_MagicBeforeNodes ==
    \A k \in 1 .. Len(wStack) :
       wStack[k].nodes > 0 => wStack[k].header.uintMagic = Magic

---------------------------------------------------------------------------
(* C11: files() is stable.  Once get_files has returned a mapping for the   *)
(* parsed document, every later step of the query interface (get_files,    *)
(* get_json, get_properties, get_links, in any order) leaves the mapping   *)
(* that get_files returns, self._files, with the same keys and the same    *)
(* extension, content and identity for each key; this holds for the empty  *)
(* mapping too, which get_files builds again at every call.                *)
C11_FilesAreStable ==
    [][(docPc = "parsed" /\ ~docFiles.isNone) =>
          /\ docFiles'.isNone = FALSE
          /\ DOMAIN docFiles'.val = DOMAIN docFiles.val
          /\ \A key \in DOMAIN docFiles.val : docFiles'.val[key] = docFiles.val[key]]_vars

\* get_files returns the cache an earlier call filled, after get_json (the
\* links are cached only by get_json or get_links) has run in between
C11_Witness ==
    /\ docPc = "parsed"
    /\ docRet.call = "get_files" /\ docRet.cached /\ docRet.err = ""
    /\ ~docLinks.isNone
    /\ Cardinality(DOMAIN docFiles.val) = 2

---------------------------------------------------------------------------
(* C12: URL extraction is idempotent under re-application.  For every text *)
(* and every URL that _extract_urls_from_text returns for it, applying     *)
(* _extract_urls_from_text to that URL returns the URL itself, unchanged,  *)
(* as the only result.                                                     *)
C12_ExtractionIsIdempotent ==
    urlPc = "reapplied" =>
       \A k \in 1 .. Len(urlOut) : urlAgain[k] = << urlOut[k] >>

---------------------------------------------------------------------------
(* C13: a file is parsed only if its first 16 bytes are the .one or the    *)
(* .onetoc2 signature.  When process_onenote_file has come to rest on an   *)
(* accepted file, the header decoder has read a guidFileType and it is the *)
(* GUID of the signature the file was accepted on; on any other first 16   *)
(* bytes it has stopped with an error and no header was read.              *)
C13_ParsedOnlyBySignature ==
    mPc \in {"header", "ended"} =>
       IF ReadUpTo(mFile, 0, 16) = ONE_SIGNATURE
       THEN mHeader.guidFileType = ONE_UUID
       ELSE IF ReadUpTo(mFile, 0, 16) = ONETOC2_SIGNATURE
       THEN mHeader.guidFileType = ONETOC2_UUID
       ELSE mErr = "SystemExit" /\ mHeader = NoDocHeader

---------------------------------------------------------------------------
(* C14: a property of type 0x11 is decoded as a nested PropertySet and     *)
(* stored at the position of the property in the outer rgData.  The nested *)
(* set starts at the byte where the reader stood (where the PropertyIDs of *)
(* the outer set or its previous value ended): its cProperties and         *)
(* PropertyIDs are the bytes found there and its values follow them; the   *)
(* CompactIDs of its values come from the OIDs, OSIDs and ContextIDs of    *)
(* the prop set; and the next value of the outer set is decoded from the   *)
(* byte where the nested set ended.  The property types are read off the   *)
(* bytes of the buffer.                                                    *)
C14_TypeAt(set, k) == (psBuf[set.current + 2 + 4 * (k - 1) + 4] \div 4) % 32

C14_ValuesFrom(set) == set.current + 2 + 4 * set.cProperties

C14_End(set) ==
    IF set.rgData = <<>> THEN C14_ValuesFrom(set) ELSE set.rgData[Len(set.rgData)].to

C14_FromStreams(set, i) ==
    set.rgData[i].val.tag = "ids" =>
       \A j \in 1 .. Len(set.rgData[i].val.ids) :
          LET id == set.rgData[i].val.ids[j]
              stream == StreamOfType(psStreams, C14_TypeAt(set, i))
          IN  id.tag = "cid" =>
                 \E h \in 1 .. Len(stream.body) : stream.body[h] = id.cid

RECURSIVE C14_SetOk(_)
C14_SetOk(set) ==
    \A k \in 1 .. Len(set.rgData) :
       LET at == IF k = 1 THEN C14_ValuesFrom(set) ELSE set.rgData[k - 1].to
           in == set.rgData[k].val.set
       IN  /\ set.rgData[k].at = at
           /\ C14_TypeAt(set, k) = 17 =>
                 /\ set.rgData[k].val.tag = "set"
                 /\ in.current = at
                 /\ in.cProperties = U16(Slice(psBuf, at, 2))
                 /\ Len(in.rgPrids) = in.cProperties
                 /\ \A i \in 1 .. in.cProperties :
                       in.rgPrids[i].bytes = Slice(psBuf, at + 2 + 4 * (i - 1), 4)
                 /\ Len(in.rgData) = in.cProperties
                 /\ \A i \in 1 .. in.cProperties :
                       /\ in.rgData[i].val.tag = "bytes" =>
                             in.rgData[i].val.Data
                               = Slice(psBuf, in.rgData[i].at,
                                       in.rgData[i].to - in.rgData[i].at)
                       /\ C14_FromStreams(in, i)
                 /\ set.rgData[k].to = C14_End(in)
                 /\ C14_SetOk(in)
           /\ C14_TypeAt(set, k) # 17 => set.rgData[k].val.tag # "set"

C14_NestedSetInPlace ==
    /\ psPc = "done" => C14_SetOk(psResult)
    /\ \A d \in 1 .. Len(psStack) : C14_SetOk(psStack[d])

\* a nested set with one 4-byte value, followed in the outer set by a value
\* that takes its count from the bytes after the nested set
C14_Witness ==
    /\ psPc = "done"
    /\ psResult.cProperties = 2
    /\ C14_TypeAt(psResult, 1) = 17
    /\ psResult.rgData[1].val.set.cProperties = 1
    /\ psResult.rgData[1].val.set.rgPrids[1].type = 5
    /\ psResult.rgData[1].val.set.rgData[1].val.Data = << 17, 18, 19, 20 >>
    /\ psResult.rgPrids[2].type = 9
    /\ Len(psResult.rgData[2].val.ids) = 2

---------------------------------------------------------------------------
(* C15: consuming CompactIDs advances the cursor of the stream and never   *)
(* the byte reader.  Over the decoding of one prop set, nested sets        *)
(* included, the j-th CompactID that properties of types 0x8/0x9 take from *)
(* OIDs (0xA/0xB from OSIDs, 0xC/0xD from ContextIDs) is taken at position *)
(* j of that stream, so that a type 0x9 property with count k is given k   *)
(* consecutive positions; and such a property takes from the byte reader   *)
(* only the 4 bytes of its count, if it has one.                           *)
RECURSIVE C15_Reads(_, _, _)
C15_Reads(set, k, types) ==
    IF k > Len(set.rgData) THEN <<>>
    ELSE (IF set.rgData[k].val.tag = "set"
          THEN C15_Reads(set.rgData[k].val.set, 1, types)
          ELSE IF set.rgData[k].val.tag = "ids" /\ set.rgPrids[k].type \in types
          THEN set.rgData[k].val.ids
          ELSE <<>>)
         \o C15_Reads(set, k + 1, types)

RECURSIVE C15_ReaderKept(_)
C15_ReaderKept(set) ==
    \A k \in 1 .. Len(set.rgData) :
       /\ set.rgPrids[k].type \in {8, 10, 12} => set.rgData[k].to = set.rgData[k].at
       /\ set.rgPrids[k].type \in {9, 11, 13} => set.rgData[k].to = set.rgData[k].at + 4
       /\ set.rgData[k].val.tag = "set" => C15_ReaderKept(set.rgData[k].val.set)

C15_StreamCursorAdvances ==
    psPc = "done" =>
       /\ C15_ReaderKept(psResult)
       /\ \A types \in { {8, 9}, {10, 11}, {12, 13} } :
            LET reads == C15_Reads(psResult, 1, types)
            IN  \A j \in 1 .. Len(reads) : reads[j].from = j - 1

---------------------------------------------------------------------------
(* C16: within a fragment that ends at section_end the walker keeps        *)
(* decoding FileNodes until tell() + 24 > section_end or the node just     *)
(* read has id 0x00 or 0xFF.  While the reader stands in the node loop at  *)
(* tell() + 24 <= section_end (equality included) and no terminator has    *)
(* been read, the next step is not the reading of nextFragment and footer  *)
(* that ends the fragment; and once tell() + 24 > section_end or a         *)
(* terminator has been read, the next step decodes no further FileNode.    *)
C16_DecodesUpToSectionEnd ==
    [][/\ (wPc = "nodes" /\ wPos + 24 <= Top.end) => wPc' \notin {"listEnd", "fragment"}
       /\ (wPc = "trailer" \/ (wPc = "nodes" /\ wPos + 24 > Top.end))
             => wPc' \in {"listEnd", "fragment", "raised"}]_vars

---------------------------------------------------------------------------
(* C17: within a fragment the first FileNode whose id is 0x00 or 0xFF ends *)
(* the node sequence of that fragment.  When the node appended last to the *)
(* fragment being read has one of these ids, the next step of the walker   *)
(* is the reading of nextFragment and footer (or an exception): no further *)
(* FileNode is decoded for the fragment, however many bytes remain before  *)
(* section_end, and the node stays the last of the fragment.               *)
C17_TerminatorEndsFragment ==
    [][(/\ wPc \in {"nodes", "trailer"}
        /\ Top.nodes > 0
        /\ wLast.file_node_id \in {0, 255})
          => /\ wPc' \in {"listEnd", "fragment", "raised"}
             /\ wLast' = wLast]_vars

\* a fragment closed behind a ChunkTerminatorFND, its only node, that left
\* more than 24 bytes before section_end
C17_Witness ==
    /\ wPc = "listEnd"
    /\ Len(Top.fragments) = 1
    /\ Top.nodes = 1
    /\ wLast.file_node_id = 255
    /\ wLast.after + 24 < Top.end

---------------------------------------------------------------------------
(* C18: the walker follows the fragment chain in link order.  A fragment   *)
(* starts where the reference in force points and ends at its stp + cb.    *)
(* After the node loop of a fragment the 12 bytes at section_end - 20 are  *)
(* its nextFragment and the 8 bytes behind them its footer, and the        *)
(* fragment is appended to the list.  If these 12 bytes are the nil        *)
(* reference the list ends with this fragment, the reader standing behind  *)
(* the footer; otherwise the reference in force becomes nextFragment and   *)
(* the reader is put at nextFragment.stp, where the next fragment is read. *)
(* A list gains a fragment in no other step.  The fields are read off the  *)
(* bytes of the file.                                                      *)
C18_NextRaw == Slice(wFile, Top.end - 20, 12)

C18_Grown ==
    /\ Len(wStack') = Len(wStack)
    /\ wStack'[Len(wStack)].fragments # Top.fragments

C18_ChainInLinkOrder ==
    [][/\ (wPc = "fragment" /\ wPc' = "nodes") =>
             /\ wPos = ValueOf(Top.ref.stp)
             /\ wStack'[Len(wStack)].end = ValueOf(Top.ref.stp) + ValueOf(Top.ref.cb)
       /\ (wPc \in {"nodes", "trailer"} /\ wPc' \in {"listEnd", "fragment"}) =>
             /\ Len(wStack') = Len(wStack)
             /\ wStack'[Len(wStack)].fragments = Append(Top.fragments, Top.header)
             /\ (wPc' = "listEnd") <=> (C18_NextRaw = NilRef64x32)
             /\ wPc' = "listEnd" => wPos' = Top.end
             /\ wPc' = "fragment" =>
                   /\ SubSeq(C18_NextRaw, 5, 8) = Zeros(4)
                   /\ wPos' = U32(SubSeq(C18_NextRaw, 1, 4))
                   /\ ValueOf(wStack'[Len(wStack)].ref.stp) = U32(SubSeq(C18_NextRaw, 1, 4))
                   /\ ValueOf(wStack'[Len(wStack)].ref.cb) = U32(SubSeq(C18_NextRaw, 9, 12))
       /\ C18_Grown => (wPc \in {"nodes", "trailer"} /\ wPc' \in {"listEnd", "fragment", "raised"})]_vars

\* a root list of two fragments, the second read where the nextFragment of
\* the first points
C18_Witness ==
    /\ wPc = "done"
    /\ Len(Top.fragments) = 2
    /\ ValueOf(Top.ref.stp) = SecondAt
    /\ Top.end = SecondAt + Len(SecondFragment(1))
    /\ wPos = Top.end

---------------------------------------------------------------------------
(* C19: for every FileNode whose header has baseType 2, whatever its id,   *)
(* the walker takes the ref of the body of the node as a new FileNodeList  *)
(* and walks it as the child list of the node, without error; a FileNode   *)
(* of another baseType gets no child list.  When the node loop decodes a   *)
(* node, the step that follows opens a list on the ref found behind the    *)
(* header exactly if the baseType in the header is 2.                      *)
C19_BaseType2HasChildList ==
    [][(wPc = "nodes" /\ wPos + 24 < Top.end /\ CanRead(wFile, wPos, 7)) =>
          LET header == FileNodeHeader(wFile, wPos)
          IN  IF header.baseType = 2
              THEN /\ wPc' = "list"
                   /\ Len(wStack') = Len(wStack) + 1
                   /\ wStack'[Len(wStack')].kind = "child"
                   /\ wStack'[Len(wStack')].ref = ReadRef(wFile, wPos + 4, header)
              ELSE Len(wStack') <= Len(wStack)]_vars

---------------------------------------------------------------------------
(* C20: every object declaration of kind ObjectDeclaration2RefCountFND, in *)
(* its normal form (id 0x0A4) and its large form (id 0x0A5), whose jcid    *)
(* has IsPropertySet set has the buffer at its ref decoded as a property   *)
(* set, which is what get_properties makes an entry of; a declaration      *)
(* whose jcid has IsPropertySet clear has none.  When the node loop        *)
(* decodes such a declaration, the step that follows starts the decoding   *)
(* of a prop set at ref.stp exactly if bit 17 of the jcid is set.  The id, *)
(* the ref and the jcid are read off the bytes of the file.                *)
C20_IsPropertySetAt(pos, n) == (wFile[pos + n + 7] \div 2) % 2 = 1

C20_DeclarationsDecodePropertySet ==
    [][(wPc = "nodes" /\ wPos + 24 < Top.end /\ CanRead(wFile, wPos, 20)) =>
          LET header == FileNodeHeader(wFile, wPos)
              n == FcrDataSize(header.stpFormat, header.cbFormat)
              ref == ReadRef(wFile, wPos + 4, header)
          IN  header.file_node_id \in {164, 165} =>
                 IF C20_IsPropertySetAt(wPos + 4, n)
                 THEN /\ wPc' = "propertySet"
                      /\ psPc' = "streams"
                      /\ psPos' = ValueOf(ref.stp)
                 ELSE wPc' # "propertySet"]_vars

---------------------------------------------------------------------------
(* C21: every routine that seeks away restores the cursor.  When a         *)
(* FileNode has been processed to its end, the reader stands where the     *)
(* body of the node ended, whatever was read elsewhere for it: behind the  *)
(* ref, the body and cRef of an object declaration whose property set was  *)
(* decoded, behind ref and guidReference of a                              *)
(* FileDataStoreObjectReferenceFND whose object was decoded, behind the    *)
(* ref of a node of baseType 2 whose child list was walked.  The lengths   *)
(* are taken from the header bytes of the node.                            *)
C21_BodyEnd(node) ==
    LET header == FileNodeHeader(wFile, node.start)
        n == FcrDataSize(header.stpFormat, header.cbFormat)
    IN  CASE node.file_node_id = 164 -> node.start + 4 + n + 10
          [] node.file_node_id = 148 -> node.start + 4 + n + 16
          [] node.file_node_id = 16  -> node.start + 4 + n
          [] OTHER -> node.after

C21_CursorRestored ==
    [][wLast' # wLast =>
          /\ wPos' = wLast'.after
          /\ wLast'.after = C21_BodyEnd(wLast')]_vars

\* the walk is back behind a RevisionManifestListReferenceFND whose child
\* list was read elsewhere, after a property set had been decoded elsewhere
C21_Witness ==
    /\ wPc = "nodes"
    /\ psPc = "done"
    /\ wLast.file_node_id = 16
    /\ wLast.baseType = 2
    /\ wPos = wLast.start + 7
    /\ Len(wStack) = 1

---------------------------------------------------------------------------
(* C22: the current revision changes only at RevisionManifestStart4FND,    *)
(* RevisionManifestStart6FND and RevisionManifestStart7FND nodes, where it *)
(* becomes the rid of the node (base.rid for Start7), the first            *)
(* ExtendedGUID of the body; every other step of the walk, in child lists, *)
(* behind a child list and behind a RevisionManifestEndFND, leaves it as   *)
(* it is.  The id and the rid are read off the bytes of the file.          *)
C22_IdAt(pos) == (wFile[pos + 1] + 256 * wFile[pos + 2]) % 1024

C22_RevisionSetAtStartOnly ==
    [][/\ cur_revision' # cur_revision =>
             /\ wPc = "nodes"
             /\ C22_IdAt(wPos) \in {27, 30, 31}
       /\ (/\ wPc = "nodes" /\ wPos + 24 < Top.end
           /\ CanRead(wFile, wPos, 24)
           /\ C22_IdAt(wPos) \in {27, 30, 31}
           /\ wPc' # "raised") =>
             /\ cur_revision'.rid = Slice(wFile, wPos + 4, 20)
             /\ cur_revision'.obj = cur_revision.obj + 1]_vars

\* the revision of a RevisionManifestStart7FND is still current behind the
\* child list, with its RevisionManifestEndFND, of the node that followed it
C22_Witness ==
    /\ wPc = "nodes"
    /\ wLast.file_node_id = 16
    /\ wLast.after = wPos
    /\ cur_revision.obj = 1
    /\ cur_revision.rid = [ i \in 1 .. 20 |-> 60 + i ]

---------------------------------------------------------------------------
(* C23: the framing of ObjectSpaceObjectPropSet.  OIDs is read first, from *)
(* the first byte; OSIDs is read next exactly when bit 31                  *)
(* (OsidStreamNotPresent) of the OIDs header is 0; ContextIDs is read next *)
(* exactly when bit 30 (ExtendedStreamsPresent) of the OIDs header is 1;   *)
(* each stream takes 4 + 4 * Count bytes, Count being the low 24 bits of   *)
(* its own header; and the PropertySet body starts at the byte behind the  *)
(* last stream that is present.  All of it is read off the bytes of the    *)
(* buffer.                                                                 *)
C23_Count(at) == psBuf[at + 1] + 256 * psBuf[at + 2] + 65536 * psBuf[at + 3]

C23_StreamAt(stream, at) ==
    /\ stream.present
    /\ stream.at = at
    /\ stream.Count = C23_Count(at)
    /\ Len(stream.body) = C23_Count(at)
    /\ stream.end = at + 4 + 4 * C23_Count(at)

C23_BodyAt ==
    LET osids == psBuf[4] < 128
        context == (psBuf[4] \div 64) % 2 = 1
        end1 == 4 + 4 * C23_Count(0)
        end2 == IF osids THEN end1 + 4 + 4 * C23_Count(end1) ELSE end1
    IN  IF context THEN end2 + 4 + 4 * C23_Count(end2) ELSE end2

C23_Body ==
    IF psPc = "done" THEN psResult.current
    ELSE IF psStack # <<>> THEN psStack[1].current
    ELSE psPos

C23_StreamsFraming ==
    psPc \in {"body", "values", "done"} =>
       LET osids == psBuf[4] < 128
           context == (psBuf[4] \div 64) % 2 = 1
           end1 == 4 + 4 * C23_Count(0)
           end2 == IF osids THEN end1 + 4 + 4 * C23_Count(end1) ELSE end1
       IN  /\ C23_StreamAt(psStreams.OIDs, 0)
           /\ psStreams.OSIDs.present <=> osids
           /\ osids => C23_StreamAt(psStreams.OSIDs, end1)
           /\ psStreams.ContextIDs.present <=> context
           /\ context => C23_StreamAt(psStreams.ContextIDs, end2)
           /\ C23_Body = C23_BodyAt

\* all three streams read, and a set decoded from the byte behind ContextIDs
C23_Witness ==
    /\ psPc = "done"
    /\ psStreams.OSIDs.present
    /\ psStreams.ContextIDs.present
    /\ psResult.current = 28
    /\ psResult.cProperties = 1

---------------------------------------------------------------------------
(* C24: a PropertyID whose type is outside {0x1 .. 0xD, 0x11} ends the     *)
(* decoding of the set when the value loop meets it: type 0x10             *)
(* (ArrayOfPropertyValues) raises NotImplementedError, every other one     *)
(* (0x0, 0xE, 0xF, 0x12 .. 0x1F) raises ValueError, and no set, not even   *)
(* the values decoded so far, is returned.  The type is read off bits      *)
(* 26..30 of the PropertyID in the buffer.                                 *)
C24_NextType ==
    (psBuf[PsTop.current + 2 + 4 * Len(PsTop.rgData) + 4] \div 4) % 32

C24_InvalidTypeRaises ==
    [][(/\ psPc = "values"
        /\ Len(PsTop.rgData) < PsTop.cProperties
        /\ C24_NextType \notin (1 .. 13) \cup {17}) =>
          /\ psPc' = "error"
          /\ psErr' = IF C24_NextType = 16 THEN "NotImplementedError" ELSE "ValueError"
          /\ psResult' = NoSet]_vars

\* ArrayOfPropertyValues met after a first value was decoded
C24_Witness ==
    /\ psPc = "error"
    /\ psErr = "NotImplementedError"
    /\ psStack # <<>>
    /\ Len(PsTop.rgData) = 1
    /\ C24_NextType = 16
    /\ psResult = NoSet

---------------------------------------------------------------------------
(* C25: the rendering of a CompactID is fixed by the table at the time it  *)
(* was decoded: a CompactID {n, guidIndex = i} decoded under the revision  *)
(* R while the table maps (R, i) to G renders as G together with n,        *)
(* whatever GlobalIdTableEntryFNDX nodes are visited after it.  The table  *)
(* at the time of decoding is read off the nodes visited before the one    *)
(* that holds the CompactID.                                               *)
C25_EntriesBefore(m, i) ==
    { k \in 1 .. (m - 1) : /\ C1_IsKind(k, "GlobalIdTableEntryFNDX")
                           /\ docNodes[k].index = i
                           /\ C1_RevisionAt(k) = C1_RevisionAt(m) }

C25_GuidAtDecoding(m, i) ==
    docNodes[CHOOSE k \in C25_EntriesBefore(m, i) :
               \A j \in C25_EntriesBefore(m, i) : j <= k].guid

C25_RenderingFixedAtDecoding ==
    \A m \in 1 .. Len(docNodes) :
      \A c \in C1_CompactIDsAt(m) :
        C25_EntriesBefore(m, c.guidIndex) # {} =>
          CompactIDStr(c) = [ok |-> TRUE,
                             str |-> << C25_GuidAtDecoding(m, c.guidIndex), c.n >>]

---------------------------------------------------------------------------
(* C26: a boolean property (type 0x2) whose id and type are in the name    *)
(* table appears in the formatted properties of its set under its name,    *)
(* with the value of its boolValue bit, whether the bit is 0 or 1.  The id *)
(* and the type are bits 0..30 of the PropertyID; when two properties of a *)
(* set have the same name the later one is the one that stays.             *)
C26_Key(prid) == [ prid.bytes EXCEPT ![4] = @ % 128 ]

C26_Rows(prid) == { r \in PropertyIdNameMapping : r[1] = C26_Key(prid) }

C26_BooleanListedUnderItsName ==
    fmtPc = "returned" =>
      \A i \in 1 .. psResult.cProperties :
        LET prid == psResult.rgPrids[i]
        IN  (/\ prid.type = 2
             /\ C26_Rows(prid) # {}
             /\ \A j \in (i + 1) .. psResult.cProperties :
                  C26_Key(psResult.rgPrids[j]) # C26_Key(prid)) =>
              LET name == (CHOOSE r \in C26_Rows(prid) : TRUE)[2]
              IN  /\ name \in DOMAIN fmtOut.val
                  /\ fmtOut.val[name] =
                       [ how |-> "str", from |-> IF prid.boolValue THEN True ELSE False ]

---------------------------------------------------------------------------
(* C27: formatting never fails on a decoded set: get_properties() of a set *)
(* whose decoding succeeded returns, and the map it returns has one entry  *)
(* per distinct name that get_property_name finds for the PropertyIDs of   *)
(* the set.                                                                *)
C27_KnownNames ==
    { get_property_name(psResult.rgPrids[i]) : i \in 1 .. psResult.cProperties }
      \ {Unknown}

C27_FormattingNeverFails ==
    fmtPc # "idle" =>
      /\ fmtPc = "returned"
      /\ fmtErr = ""
      /\ DOMAIN fmtOut.val = C27_KnownNames

---------------------------------------------------------------------------
(* C28: parsing always terminates, also when a nextFragment reference or   *)
(* the ref of a baseType-2 FileNode points at a fragment that was visited  *)
(* before: the walk completes or aborts with an error, and no fragment is  *)
(* decoded more than once.  Stated here is what a terminating walk over    *)
(* such a file needs: no offset occurs twice among the offsets at which a  *)
(* FileNodeListFragment was decoded.                                       *)
C28_NoFragmentDecodedTwice ==
    \A i \in 1 .. Len(wDecoded) :
      \A j \in 1 .. Len(wDecoded) : i # j => wDecoded[i] # wDecoded[j]

---------------------------------------------------------------------------
(* C29: every entry of files() has a byte sequence as its content, also an *)
(* entry that only an ObjectDeclarationFileData3RefCountFND contributed,   *)
(* so that get_json() can hex-encode every content: after get_files() or   *)
(* get_json() has built the mapping without a failure of the identity      *)
(* lookup, every content in it is bytes and get_json() has not failed.     *)
C29_FileContentIsBytes ==
    (/\ docRet.call \in {"get_files", "get_json"}
     /\ docRet.err # "KeyError") =>
       /\ \A key \in DOMAIN docFiles.val : docFiles.val[key].content.isBytes
       /\ docRet.err = ""

---------------------------------------------------------------------------
(* C30: get_links(include_text_urls=False) returns only entries whose      *)
(* source is WzHyperlinkUrl, whatever was called on the document before    *)
(* it, an earlier get_links() with the text URLs included.                 *)
C30_NoTextUrlsUnlessAsked ==
    (/\ docRet.call = "get_links"
     /\ ~docRet.include_text_urls
     /\ docRet.err = "") =>
       \A k \in 1 .. Len(docLinks.val) : docLinks.val[k].source = "WzHyperlinkUrl"

=============================================================================
